---------------------------- MODULE Spec2Model ----------------------------
(***************************************************************************)
(* A model of the `immutable` package: write-once instances                *)
(* (immutable.py), shallow and deep immutable proxies (proxy.py, deep.py), *)
(* the read-only adapters of tuple, dict and list (extraproxies.py) and    *)
(* the replacement of builtins.super that keeps the proxy as receiver      *)
(* (superpatch.py).                                                        *)
(*                                                                         *)
(* The state is a Python heap (objects with a class, an instance __dict__  *)
(* and, for containers, their items), the process-wide builtins.super, the *)
(* two registries of ImmutableProxy, and one call stack per thread.  The   *)
(* classes of the wrapped objects are the ones the test-suite uses.        *)
(***************************************************************************)
EXTENDS Integers, Sequences, FiniteSets, TLC

VARIABLES
    heap,       \* object id -> [cls, attrs, items]
    bsuper,     \* builtins.super: "super" or "super_patch"
    immTypes,   \* ImmutableProxy._BUILTIN_IMMUTABLE (a list of types)
    regProxies, \* ImmutableProxy._REGISTERED_PROXIES (type -> proxy class)
    stack,      \* thread -> sequence of frames (innermost last)
    exc,        \* thread -> exception in flight ("none" when there is none)
    cur,        \* thread -> the reference the client code holds
    last,       \* thread -> record of the last finished client operation
    trace       \* thread -> method bodies entered by the current call

vars == <<heap, bsuper, immTypes, regProxies, stack, exc, cur, last, trace>>

(***************************************************************************)
(* Bounds of the model.                                                    *)
(***************************************************************************)
\* Number of heap cells for objects allocated after start-up.
MaxDyn == 4
\* Largest number of frames on one call stack.
MaxDepth == 8

Threads == {1, 2}
\* The threads that run in the sequential specification Spec.
MainThreads == {1}

(***************************************************************************)
(* Values.  Every value is a record [k, v]: k is the kind, v an integer    *)
(* (the number, or the object id of a reference).                          *)
(***************************************************************************)
IntV(n) == [k |-> "int", v |-> n]
StrV == [k |-> "str", v |-> 0]
NoneV == [k |-> "none", v |-> 0]
BoolV(b) == [k |-> "bool", v |-> IF b THEN 1 ELSE 0]
Ref(i) == [k |-> "ref", v |-> i]
\* A function object (the closure an attribute read returns for a method).
FnV == [k |-> "function", v |-> 0]

\* The first argument of a function called without arguments.
NoArg == [k |-> "noarg", v |-> 0]

\* The handle (coroutine or generator object) that a call of the coroutine
\* function coro with the object i as first argument returns.
CoroV(i) == [k |-> "coro", v |-> i]

IsRef(val) == val.k = "ref"

\* The classes, numbered: a class used as a value is TypeV(c).
ClassNames == <<"object", "type", "int", "str", "NoneType", "bool", "function",
                "list", "tuple", "dict", "dict_items", "dict_keys", "dict_values",
                "A", "B", "C", "K", "Base", "L", "R", "M", "ImmA", "ImmB", "Other", "Cd", "D", "DecD",
                "SubList", "SubInt",
                "Generic", "Immutable", "_ImmutableWrapper", "ImmutableProxy",
                "DeepImmutableProxy", "BuiltinImmutableProxy",
                "TupleImmutableProxy", "DictImmutableProxy", "ListImmutableProxy">>
TypeV(c) == [k |-> "type", v |-> CHOOSE i \in 1..Len(ClassNames) : ClassNames[i] = c]
ClassOf(val) == ClassNames[val.v]

(***************************************************************************)
(* Classes.  Mro(c) is inspect.getmro(c).                                  *)
(***************************************************************************)
ProxyBase == <<"ImmutableProxy", "_ImmutableWrapper", "Immutable", "Generic", "object">>
DeepBase == <<"DeepImmutableProxy">> \o ProxyBase
BuiltinBase == <<"BuiltinImmutableProxy">> \o DeepBase

Mro(c) ==
    CASE c = "A" -> <<"A", "object">>
      [] c = "B" -> <<"B", "A", "object">>
      [] c = "C" -> <<"C", "B", "A", "object">>
      [] c = "K" -> <<"K", "object">>
      [] c = "Base" -> <<"Base", "object">>
      [] c = "L" -> <<"L", "Base", "object">>
      [] c = "R" -> <<"R", "Base", "object">>
      [] c = "M" -> <<"M", "L", "R", "Base", "object">>
      [] c = "ImmA" -> <<"ImmA", "Immutable", "object">>
      [] c = "ImmB" -> <<"ImmB", "ImmA", "Immutable", "object">>
      [] c = "Other" -> <<"Other", "Immutable", "object">>
      [] c = "Cd" -> <<"Cd", "object">>
      [] c = "D" -> <<"D", "Cd", "object">>
      [] c = "DecD" -> <<"DecD", "D", "Cd", "object">>
      [] c = "bool" -> <<"bool", "int", "object">>
      [] c = "SubList" -> <<"SubList", "list", "object">>
      [] c = "SubInt" -> <<"SubInt", "int", "object">>
      [] c = "Immutable" -> <<"Immutable", "object">>
      [] c = "_ImmutableWrapper" -> <<"_ImmutableWrapper", "Immutable", "object">>
      [] c = "ImmutableProxy" -> ProxyBase
      [] c = "DeepImmutableProxy" -> DeepBase
      [] c = "BuiltinImmutableProxy" -> BuiltinBase
      [] c = "TupleImmutableProxy" -> <<"TupleImmutableProxy">> \o BuiltinBase
      [] c = "DictImmutableProxy" -> <<"DictImmutableProxy">> \o BuiltinBase
      [] c = "ListImmutableProxy" -> <<"ListImmutableProxy">> \o BuiltinBase
      [] OTHER -> IF c = "object" THEN <<"object">> ELSE <<c, "object">>

Range(s) == {s[i] : i \in 1..Len(s)}

\* issubclass(c, d)
IsSubclass(c, d) == d \in Range(Mro(c))

\* Classes created by ImmutableMeta: Immutable, its subclasses, and the
\* classes the decorator immutable() returns.
HasImmutableMeta(c) == IsSubclass(c, "Immutable") \/ c = "DecD"

\* Classes that define __call__ (their instances are callable).
DefinesCall(c) == c \in {"K", "function", "type"}

(***************************************************************************)
(* The classes of the wrapped objects.  A method body is a sequence of     *)
(* instructions [op, a, b, n] executed with the frame's first argument as  *)
(* receiver:                                                               *)
(*   set a n     self.a = n            del a        del self.a             *)
(*   super a     acc = super().a()     callattr a b acc = self.a.b()       *)
(*   ret_attr a  return self.a         ret_acc      return acc             *)
(*   ret_none    return None           ret_int n    return n               *)
(*   ret_self    return the first argument                                 *)
(*   superx a b  acc = super(b, self).a()                                  *)
(*   superget a  acc = super().a                                           *)
(*   callcls a b acc = b.a()           callfn a     acc = a(self)          *)
(*   ret_handle  return the handle of a coroutine: the call of a coroutine *)
(*               (or generator) function runs nothing else; the body of    *)
(*               the function coro is Body(c, "coro_body"), and it runs    *)
(*               when the handle is driven                                 *)
(* A function defined outside any class has NoClass as its class.  How a   *)
(* class defines a name is AttrKindOf: "function", "classmethod",          *)
(* "staticmethod", "property" (the body is the getter) or "member" (a      *)
(* slot).                                                                  *)
(***************************************************************************)
NoClass == "<module>"
Ins(op, a, b, n) == [op |-> op, a |-> a, b |-> b, n |-> n]
SetI(a, n) == Ins("set", a, "", n)
DelI(a) == Ins("del", a, "", 0)
SuperI(a) == Ins("super", a, "", 0)
CallAttrI(a, b) == Ins("callattr", a, b, 0)
RetAttrI(a) == Ins("ret_attr", a, "", 0)
RetAccI == Ins("ret_acc", "", "", 0)
RetNoneI == Ins("ret_none", "", "", 0)
RetIntI(n) == Ins("ret_int", "", "", n)
RetSelfI == Ins("ret_self", "", "", 0)
SuperXI(k, a) == Ins("superx", a, k, 0)
SuperGetI(a) == Ins("superget", a, "", 0)
CallClsI(c, a) == Ins("callcls", a, c, 0)
CallFnI(a) == Ins("callfn", a, "", 0)
HandleI == Ins("ret_handle", "", "", 0)

\* The functions a class defines in its own body (<<>>: not defined there).
Body(c, m) ==
    CASE c = "A" /\ m = "get_x" -> <<RetAttrI("x")>>
      [] c = "A" /\ m = "set_x" -> <<SetI("x", 5), RetNoneI>>
      [] c = "B" /\ m = "get_x" -> <<SuperI("get_x"), RetAccI>>
      [] c = "B" /\ m = "set_x" -> <<SuperI("set_x"), RetAccI>>
      [] c = "B" /\ m = "del_x" -> <<DelI("x"), RetNoneI>>
      [] c = "C" /\ m = "get_x" -> <<SuperI("get_x"), RetAccI>>
      [] c = "C" /\ m = "set_x" -> <<SuperI("set_x"), RetAccI>>
      [] c = "C" /\ m = "del_x" -> <<SuperI("del_x"), RetAccI>>
      [] c = "C" /\ m = "nest" -> <<CallAttrI("peer", "get_x"), RetAccI>>
      [] c = "C" /\ m = "nestm" -> <<CallAttrI("m", "do"), RetAccI>>
      [] c = "B" /\ m = "miss" -> <<SuperI("miss"), RetAccI>>
      [] c = "B" /\ m = "coro" -> <<HandleI>>
      [] c = "B" /\ m = "coro_body" -> <<SuperI("get_x"), RetAccI>>
      [] c = "K" /\ m = "__call__" -> <<RetNoneI>>
      [] c = "Base" /\ m = "do" -> <<RetIntI(1)>>
      [] c = "Base" /\ m = "y" -> <<RetAttrI("x")>>
      [] c = "Base" /\ m = "cn" -> <<RetSelfI>>
      [] c = "L" /\ m = "via" -> <<SuperI("do"), RetAccI>>
      [] c = "L" /\ m = "viax" -> <<SuperXI("L", "do"), RetAccI>>
      [] c = "L" /\ m = "missx" -> <<SuperXI("L", "nope"), RetAccI>>
      [] c = "R" /\ m = "do" -> <<RetIntI(2)>>
      [] c = "M" /\ m = "do" -> <<SuperI("do"), RetAccI>>
      [] c = "M" /\ m = "gy" -> <<SuperGetI("y"), RetAccI>>
      [] c = "M" /\ m = "gs" -> <<SuperGetI("s"), RetAccI>>
      [] c = "M" /\ m = "cn" -> <<SuperI("cn"), RetAccI>>
      [] c = "M" /\ m = "cmiss" -> <<SuperI("nope"), RetAccI>>
      [] c = "M" /\ m = "st" -> <<SuperI("do"), RetAccI>>
      [] c = "M" /\ m = "callcn" -> <<CallClsI("M", "cn"), RetAccI>>
      [] c = "M" /\ m = "callcmiss" -> <<CallClsI("M", "cmiss"), RetAccI>>
      [] c = "M" /\ m = "callst" -> <<CallClsI("M", "st"), RetAccI>>
      [] c = "M" /\ m = "fn" -> <<CallFnI("plain"), RetAccI>>
      [] c = NoClass /\ m = "plain" -> <<SuperI("do"), RetAccI>>
      [] c = "ImmA" /\ m = "__init__" -> <<SetI("x", 0), SetI("y", 1), RetNoneI>>
      [] c = "ImmB" /\ m = "__init__" -> <<SuperI("__init__"), SetI("z", 2), RetNoneI>>
      [] c = "Other" /\ m = "__init__" -> <<SetI("x", 42), DelI("x"), RetNoneI>>
      [] c = "Cd" /\ m = "__init__" -> <<SetI("x", 0), RetNoneI>>
      [] c = "D" /\ m = "__init__" -> <<SuperI("__init__"), SetI("y", 1), RetNoneI>>
      [] c = "object" /\ m = "__init__" -> <<RetNoneI>>
      [] OTHER -> <<>>

\* The methods of the built-in containers that the model gives a meaning.
ContainerMethods(c) ==
    CASE c = "tuple" -> {"index", "count"}
      [] c = "list" -> {"index", "count", "append"}
      [] c = "dict" -> {"get", "items", "keys", "values", "update"}
      [] OTHER -> {}

\* The slots of a class.
Slots(c) == IF c = "Base" THEN {"s"} ELSE {}

\* How the class c defines the name m.
AttrKindOf(c, m) ==
    CASE m \in Slots(c) -> "member"
      [] c = "Base" /\ m = "y" -> "property"
      [] c \in {"Base", "M"} /\ m \in {"cn", "cmiss"} -> "classmethod"
      [] c = "M" /\ m = "st" -> "staticmethod"
      [] OTHER -> "function"

\* c.__dict__ has the name m.
Defines(c, m) ==
    c # NoClass /\ (Body(c, m) # <<>> \/ m \in ContainerMethods(c) \/ m \in Slots(c))

\* The first class of the sequence of classes s that defines m ("none").
RECURSIVE FirstDefining(_, _)
FirstDefining(s, m) ==
    IF s = <<>> THEN "none"
    ELSE IF Defines(Head(s), m) THEN Head(s)
    ELSE FirstDefining(Tail(s), m)

\* getattr(c, m) for a class c: the class whose function is found ("none"
\* when the lookup raises AttributeError).
ClassGetAttr(c, m) == FirstDefining(Mro(c), m)

(***************************************************************************)
(* The heap.                                                               *)
(***************************************************************************)
NoAttrs == [n \in {} |-> NoneV]
Obj(c, attrs, items) == [cls |-> c, attrs |-> attrs, items |-> items]

\* The objects that exist when the client code starts.
RawIds == 1..10
RawWorld ==
    (1 :> Obj("C", [n \in {"x", "peer", "lst", "f", "m"} |->
                      CASE n = "x" -> IntV(1)
                        [] n = "peer" -> Ref(2)
                        [] n = "lst" -> Ref(3)
                        [] n = "f" -> Ref(4)
                        [] n = "m" -> Ref(7)], <<>>))
    \* cb holds a function defined outside the class
    @@ (2 :> Obj("B", [n \in {"x", "cb"} |-> IF n = "x" THEN IntV(7) ELSE FnV], <<>>))
    @@ (3 :> Obj("list", NoAttrs, <<IntV(1), Ref(2)>>))
    @@ (4 :> Obj("K", [n \in {"x"} |-> IntV(0)], <<>>))
    @@ (5 :> Obj("tuple", NoAttrs, <<IntV(1), Ref(3)>>))
    @@ (6 :> Obj("dict", NoAttrs, <<Ref(3), IntV(3)>>))
    @@ (7 :> Obj("M", [n \in {"x", "s"} |-> IF n = "x" THEN IntV(3) ELSE IntV(4)], <<>>))
    \* an instance of a class that inherits from list, an instance (with
    \* attributes) of a class that inherits from int, and object()
    @@ (8 :> Obj("SubList", NoAttrs, <<IntV(1)>>))
    @@ (9 :> Obj("SubInt", [n \in {"x"} |-> IntV(0)], <<>>))
    @@ (10 :> Obj("object", NoAttrs, <<>>))

DynIds == (Cardinality(RawIds) + 1)..(Cardinality(RawIds) + MaxDyn)
Free(h) == DynIds \ DOMAIN h
\* The cell a new object gets.
Fresh(h) == CHOOSE i \in Free(h) : \A j \in Free(h) : i <= j
Alloc(h, o) == (Fresh(h) :> o) @@ h

\* type(val)
TypeOf(h, val) ==
    CASE val.k = "int" -> "int"
      [] val.k = "str" -> "str"
      [] val.k = "none" -> "NoneType"
      [] val.k = "bool" -> "bool"
      [] val.k = "function" -> "function"
      [] val.k = "type" -> "type"
      [] val.k = "coro" -> "coroutine"
      [] val.k = "ref" -> h[val.v].cls

\* isinstance(val, c)
IsInstance(h, val, c) == IsSubclass(TypeOf(h, val), c)

IsProxy(h, val) == IsInstance(h, val, "ImmutableProxy")
IsDeepProxy(h, val) == IsInstance(h, val, "DeepImmutableProxy")

\* obj.__dict__[a] = v and del obj.__dict__[a]
WriteAttr(h, i, a, v) == [h EXCEPT ![i].attrs = (a :> v) @@ @]
DropAttr(h, i, a) ==
    [h EXCEPT ![i].attrs = [n \in (DOMAIN @) \ {a} |-> @[n]]]
HasOwnAttr(h, val, a) == IsRef(val) /\ a \in DOMAIN h[val.v].attrs

\* The ids reachable from a set of ids through attributes and items.
RefsOf(o) ==
    {o.attrs[n].v : n \in {m \in DOMAIN o.attrs : IsRef(o.attrs[m])}}
    \cup {o.items[i].v : i \in {j \in 1..Len(o.items) : IsRef(o.items[j])}}
RECURSIVE Reach(_, _)
Reach(h, ids) ==
    LET next == ids \cup UNION {RefsOf(h[i]) : i \in ids}
    IN  IF next = ids THEN ids ELSE Reach(h, next)

(***************************************************************************)
(* Results of an operation: the value it returns or the exception it       *)
(* raises, and the heap it leaves.                                         *)
(***************************************************************************)
ExcRec(kind, owner, wrapped, attr, action) ==
    [kind |-> kind, owner |-> owner, wrapped |-> wrapped, attr |-> attr,
     action |-> action]
NoExc == ExcRec("none", "", "", "", "")
Err(kind) == ExcRec(kind, "", "", "", "")
Ok(val, h) == [out |-> NoExc, val |-> val, h |-> h]
Raise(e, h) == [out |-> e, val |-> NoneV, h |-> h]
IsOk(r) == r.out = NoExc

(***************************************************************************)
(* immutable.py and exceptions.py                                          *)
(***************************************************************************)
\* _ImmutableWrapper.get_type: type(self._instance)
GetType(h, p) == TypeOf(h, h[p].attrs["_instance"])

\* set_error / del_error: the message names cls_name(), the attribute and
\* the action; cls_name() of a proxy also names the wrapped type.
ConstantAttributeError(h, i, attr, action) ==
    ExcRec("ConstantAttributeError", h[i].cls,
           IF IsSubclass(h[i].cls, "_ImmutableWrapper") THEN GetType(h, i) ELSE "",
           attr, action)

\* self.__frozen
\* Variant: the flag is never seen set.
IsFrozenBug(h, i) == FALSE
IsFrozen(h, i) == h[i].attrs["__frozen"] = BoolV(TRUE)

\* type(val).__setattr__(val, attr, v): _setattr for the classes made by
\* ImmutableMeta, object.__setattr__ for the others.
SetAttrOf(h, val, attr, v) ==
    IF ~IsRef(val) \/ h[val.v].cls \in {"list", "tuple", "dict"}
    THEN Raise(Err("AttributeError"), h)
    ELSE IF HasImmutableMeta(h[val.v].cls) /\ IsFrozen(h, val.v)
    THEN Raise(ConstantAttributeError(h, val.v, attr, "change"), h)
    ELSE Ok(NoneV, WriteAttr(h, val.v, attr, v))

\* type(val).__delattr__(val, attr): _delattr or object.__delattr__.
DelAttrOf(h, val, attr) ==
    IF ~IsRef(val) \/ h[val.v].cls \in {"list", "tuple", "dict"}
    THEN Raise(Err("AttributeError"), h)
    ELSE IF HasImmutableMeta(h[val.v].cls) /\ IsFrozen(h, val.v)
    THEN Raise(ConstantAttributeError(h, val.v, attr, "delete"), h)
    ELSE IF attr \in DOMAIN h[val.v].attrs
    THEN Ok(NoneV, DropAttr(h, val.v, attr))
    ELSE Raise(Err("AttributeError"), h)

(***************************************************************************)
(* proxy.py: ImmutableProxy.__new__ and the registries                     *)
(***************************************************************************)
\* The registries once the package is imported (__init__.py).
BuiltinRegistered == <<"bytes", "int", "float", "complex", "str", "NoneType",
                       "Pattern", "Match", "date", "Path", "module">>
InitialProxies ==
    [c \in {"tuple", "dict", "list"} |->
        CASE c = "tuple" -> "TupleImmutableProxy"
          [] c = "dict" -> "DictImmutableProxy"
          [] c = "list" -> "ListImmutableProxy"]

\* isinstance(wrapped, tuple(cls._BUILTIN_IMMUTABLE)) or isinstance(wrapped, cls)
\* Variant: without the test isinstance(wrapped, cls).
IsAlreadyImmutableBug(h, imm, cls, w) ==
    \E i \in 1..Len(imm) : IsInstance(h, w, imm[i])
\* Variant: without the test against _BUILTIN_IMMUTABLE.
IsAlreadyImmutableNoTypes(h, imm, cls, w) == IsInstance(h, w, cls)
IsAlreadyImmutable(h, imm, cls, w) ==
    \/ \E i \in 1..Len(imm) : IsInstance(h, w, imm[i])
    \/ IsInstance(h, w, cls)

\* _get_class: the class of the new proxy ("KeyError" when the lookup in
\* _REGISTERED_PROXIES fails).
GetClass(h, reg, cls, w) ==
    IF \E c \in DOMAIN reg : IsInstance(h, w, c)
    THEN IF TypeOf(h, w) \in DOMAIN reg THEN reg[TypeOf(h, w)] ELSE "KeyError"
    ELSE cls

\* _set_instance: the value stored as _instance (<<>> when reading
\* wrapped._instance raises AttributeError).
SetInstance(h, cls, w) ==
    IF IsSubclass(cls, TypeOf(h, w))
    THEN IF HasOwnAttr(h, w, "_instance") THEN <<h[w.v].attrs["_instance"]>> ELSE <<>>
    ELSE <<w>>

\* ImmutableProxy.__new__(cls, wrapped)
ProxyNew(h, imm, reg, cls, w) ==
    IF IsAlreadyImmutable(h, imm, cls, w) THEN Ok(w, h)
    ELSE LET pc == GetClass(h, reg, cls, w)
             target == SetInstance(h, cls, w)
         IN  IF pc = "KeyError" THEN Raise(Err("KeyError"), h)
             ELSE IF target = <<>> THEN Raise(Err("AttributeError"), h)
             ELSE Ok(Ref(Fresh(h)),
                     Alloc(h, Obj(pc, [n \in {"_instance"} |-> target[1]], <<>>)))

\* type(instance).__init__(instance, arg): BuiltinImmutableProxy.__init__
\* stores the argument as _data, the other proxies inherit object.__init__.
ProxyInit(h, i, arg) ==
    IF IsSubclass(h[i].cls, "BuiltinImmutableProxy")
    THEN SetAttrOf(h, Ref(i), "_data", arg).h
    ELSE h

\* ImmutableMeta.__call__, first half: cls.__new__, the isinstance test and
\* the reset of the freeze flag.  "init" tells whether __init__ is to run.
MetaNewOf(r, cls) ==
    IF IsOk(r) /\ IsInstance(r.h, r.val, cls)
    THEN [r EXCEPT !.h = WriteAttr(r.h, r.val.v, "__frozen", BoolV(FALSE))]
            @@ [init |-> TRUE]
    ELSE r @@ [init |-> FALSE]
MetaNew(h, imm, reg, cls, w) == MetaNewOf(ProxyNew(h, imm, reg, cls, w), cls)

\* ImmutableMeta.__call__, second half: __init__ and the freeze.
\* Variant: the flag is not set after __init__.
MetaFreezeBug(h, i) == h
MetaFreeze(h, i) == WriteAttr(h, i, "__frozen", BoolV(TRUE))

MetaInit(h, i, arg) == MetaFreeze(ProxyInit(h, i, arg), i)

\* cls(wrapped) for a proxy class, as one step.
MetaCallOf(r, w) ==
    IF r.init THEN Ok(r.val, MetaInit(r.h, r.val.v, w))
    ELSE [out |-> r.out, val |-> r.val, h |-> r.h]
MetaCall(h, imm, reg, cls, w) == MetaCallOf(MetaNew(h, imm, reg, cls, w), w)

(***************************************************************************)
(* Attribute reads on the wrapped objects (Python's getattr)               *)
(***************************************************************************)
\* What getattr(inst, a) finds: "data" (a value of the instance __dict__),
\* "bound" (a function of the class, bound to inst) or "missing".
AttrKind(h, inst, a) ==
    IF ~IsRef(inst) THEN "missing"
    ELSE IF a \in DOMAIN h[inst.v].attrs THEN "data"
    ELSE IF ClassGetAttr(h[inst.v].cls, a) # "none" THEN "bound"
    ELSE "missing"

\* callable(getattr(inst, a)), for an attribute that exists.
IsCallableAttr(h, inst, a) ==
    \/ AttrKind(h, inst, a) = "bound"
    \/ /\ AttrKind(h, inst, a) = "data"
       /\ DefinesCall(TypeOf(h, h[inst.v].attrs[a]))

\* inst[k] for an object that is no proxy.  Positions are 1..Len: the
\* indices of a list or a tuple shifted by one, the keys of the dict.
RawGetItem(h, inst, k) ==
    IF IsRef(inst) /\ h[inst.v].cls \in {"list", "tuple", "dict"}
    THEN IF k \in 1..Len(h[inst.v].items)
         THEN Ok(h[inst.v].items[k], h)
         ELSE Raise(Err(IF h[inst.v].cls = "dict" THEN "KeyError" ELSE "IndexError"), h)
    ELSE Raise(Err("TypeError"), h)

\* The number of items of s equal to v, and the first position of v.
CountOf(s, v) == Cardinality({i \in 1..Len(s) : s[i] = v})
IndexOf(s, v) == CHOOSE i \in 1..Len(s) : s[i] = v /\ \A j \in 1..(i - 1) : s[j] # v

\* A method of a built-in container called with one argument.
ContainerCall(h, data, meth, arg) ==
    LET items == h[data.v].items
    IN  CASE meth = "index" ->
               IF CountOf(items, arg) > 0 THEN Ok(IntV(IndexOf(items, arg) - 1), h)
               ELSE Raise(Err("ValueError"), h)
          [] meth = "count" -> Ok(IntV(CountOf(items, arg)), h)
          [] meth = "get" ->
               IF arg.k = "int" /\ arg.v \in 1..Len(items) THEN Ok(items[arg.v], h)
               ELSE Ok(NoneV, h)
          [] meth \in {"items", "keys", "values"} ->
               Ok(Ref(Fresh(h)),
                  Alloc(h, Obj("dict_" \o meth, [n \in {"_dict"} |-> data], <<>>)))
          [] meth = "append" ->
               Ok(NoneV, [h EXCEPT ![data.v].items = Append(@, arg)])
          [] meth = "update" ->
               Ok(NoneV, [h EXCEPT ![data.v].items = Append(@, arg)])

(***************************************************************************)
(* proxy.py: ImmutableProxy.__getattr__ and __getitem__                    *)
(***************************************************************************)
\* The names that normal lookup finds on the proxy classes themselves.
ProxyClassNames ==
    {"get_type", "cls_name", "register_immutable", "get_registered_immutable",
     "register_proxy", "get_registered_proxies"}

\* ImmutableProxy.__getattr__ for an attribute of the instance __dict__
\* that holds val.  A function or a bound method passes one of the tests
\* _is_bound_method, _is_class_method, _is_static_method, which, like
\* _define_method and _define_class_method, read getattr(type(instance), a);
\* any other value is read from the wrapped object.
\* Variant: every value is read from the wrapped object.
ProxyGetDataDirect(h, c, a, val) == Ok(val, h)
ProxyGetData(h, c, a, val) ==
    IF val.k = "function"
    THEN IF ClassGetAttr(c, a) = "none" THEN Raise(Err("AttributeError"), h)
         ELSE Ok(FnV, h)
    ELSE Ok(val, h)

\* ImmutableProxy.__getattr__: a bound method gives the closure of
\* _define_method, anything else is read from the wrapped object.
ProxyGetAttr(h, p, a) ==
    LET inst == h[p].attrs["_instance"]
        kind == AttrKind(h, inst, a)
    IN  CASE kind = "missing" -> Raise(Err("AttributeError"), h)
          [] kind = "bound" -> Ok(FnV, h)
          [] kind = "data" -> ProxyGetData(h, TypeOf(h, inst), a, h[inst.v].attrs[a])

\* ImmutableProxy.__getitem__
ProxyGetItem(h, p, k) == RawGetItem(h, h[p].attrs["_instance"], k)

(***************************************************************************)
(* deep.py                                                                 *)
(***************************************************************************)
\* DeepImmutableProxy.__getattr__
DeepGetAttr(h, imm, reg, p, a) ==
    LET r == ProxyGetAttr(h, p, a)
    IN  IF ~IsOk(r) THEN r
        ELSE IF IsCallableAttr(h, h[p].attrs["_instance"], a) THEN r
        ELSE MetaCall(h, imm, reg, h[p].cls, r.val)

\* DeepImmutableProxy.__getitem__
DeepGetItem(h, imm, reg, p, k) ==
    LET r == RawGetItem(h, h[p].attrs["_instance"], k)
    IN  IF ~IsOk(r) THEN r ELSE MetaCall(h, imm, reg, h[p].cls, r.val)

(***************************************************************************)
(* extraproxies.py                                                         *)
(***************************************************************************)
\* _get_immutable_methods of the three adapters; for the tuple, the names
\* of dir(tuple) that do not start with "__".
\* Variant: the lists also name append and update.
ImmutableMethodsBug(c) ==
    CASE c = "TupleImmutableProxy" -> {"count", "index"}
      [] c = "DictImmutableProxy" -> {"get", "items", "keys", "values", "update"}
      [] c = "ListImmutableProxy" -> {"index", "count", "append"}
      [] OTHER -> {}
ImmutableMethods(c) ==
    CASE c = "TupleImmutableProxy" -> {"count", "index"}
      [] c = "DictImmutableProxy" -> {"get", "items", "keys", "values"}
      [] c = "ListImmutableProxy" -> {"index", "count"}
      [] OTHER -> {}

\* BuiltinImmutableProxy.__getattr__: the closure of _define_builtin_method
\* around getattr(self._data, attr), or AttributeError.  When _data is the
\* proxy itself the getattr comes back to this __getattr__ without end.
BuiltinGetAttr(h, p, a) ==
    IF a \in ImmutableMethods(h[p].cls)
    THEN IF h[p].attrs["_data"] = Ref(p) THEN Raise(Err("RecursionError"), h)
         ELSE IF a \in ContainerMethods(TypeOf(h, h[p].attrs["_data"])) THEN Ok(FnV, h)
         ELSE Raise(Err("AttributeError"), h)
    ELSE Raise(ExcRec("AttributeError", h[p].cls, "", a, "read"), h)

\* The closure of _define_builtin_method called with one argument:
\* DeepImmutableProxy(method(arg)).
\* Variant: the result is returned as it is.
BuiltinWrapNone(h, imm, reg, val) == Ok(val, h)
BuiltinMethodWrap(h, imm, reg, val) == MetaCall(h, imm, reg, "DeepImmutableProxy", val)
BuiltinMethodCall(h, imm, reg, p, a, arg) ==
    LET g == BuiltinGetAttr(h, p, a)
        r == ContainerCall(h, h[p].attrs["_data"], a, arg)
    IN  IF ~IsOk(g) THEN g
        ELSE IF ~IsOk(r) THEN r
        ELSE BuiltinMethodWrap(r.h, imm, reg, r.val)

\* BuiltinImmutableProxy.__getitem__: DeepImmutableProxy(self._data[key])
BuiltinGetItemWrap(h, imm, reg, val) == MetaCall(h, imm, reg, "DeepImmutableProxy", val)
BuiltinGetItem(h, imm, reg, p, k) ==
    IF h[p].attrs["_data"] = Ref(p) THEN Raise(Err("RecursionError"), h)
    ELSE LET r == RawGetItem(h, h[p].attrs["_data"], k)
         IN  IF ~IsOk(r) THEN r ELSE BuiltinGetItemWrap(r.h, imm, reg, r.val)

(***************************************************************************)
(* Item assignment.  val[k] = v calls type(val).__setitem__, looked up on  *)
(* the class and never through __getattr__; no class of the package        *)
(* defines it.                                                             *)
(***************************************************************************)
DefinesSetItem(c) == c \in {"list", "dict"}
HasSetItem(h, val) ==
    IsRef(val) /\ \E c \in Range(Mro(TypeOf(h, val))) : DefinesSetItem(c)

\* list.__setitem__ and dict.__setitem__ on object i: position k, or the
\* slice of the one position k, gets v.
StoreItem(h, i, k, slice, v) ==
    IF k \in 1..Len(h[i].items) /\ ~(slice /\ h[i].cls = "dict")
    THEN Ok(NoneV, [h EXCEPT ![i].items[k] = v])
    ELSE IF h[i].cls = "dict" /\ slice THEN Raise(Err("TypeError"), h)
    ELSE IF h[i].cls = "dict" \/ slice
    THEN Ok(NoneV, [h EXCEPT ![i].items = Append(@, v)])
    ELSE Raise(Err("IndexError"), h)

\* Variant: item assignment forwarded to the wrapped object like a method.
SetItemForwarded(h, val, k, slice, v) ==
    IF IsRef(val) /\ IsProxy(h, val) /\ HasSetItem(h, h[val.v].attrs["_instance"])
    THEN StoreItem(h, h[val.v].attrs["_instance"].v, k, slice, v)
    ELSE Raise(Err("TypeError"), h)
\* val[k] = v and val[k-1:k] = [v]
SetItemOf(h, val, k, slice, v) ==
    IF HasSetItem(h, val) THEN StoreItem(h, val.v, k, slice, v)
    ELSE Raise(Err("TypeError"), h)

(***************************************************************************)
(* checktype.py: get_type and is_instance                                  *)
(***************************************************************************)
\* get_type(obj)
GetTypeOfProxyClass(h, val) == TypeOf(h, val)
GetTypeOf(h, val) ==
    IF IsRef(val) /\ IsInstance(h, val, "ImmutableProxy")
    THEN GetType(h, val.v)
    ELSE TypeOf(h, val)

\* is_instance(obj, cls_or_tuple): issubclass(get_type(obj), cls_or_tuple),
\* where cls_or_tuple is the class c, or the tuple (c, d) when d is a class.
IsInstanceOf(h, val, c, d) ==
    \/ IsSubclass(GetTypeOf(h, val), c)
    \/ d.k = "type" /\ IsSubclass(GetTypeOf(h, val), ClassOf(d))

(***************************************************************************)
(* proxy.py: __copy__ and __deepcopy__ (copy.copy and copy.deepcopy of the *)
(* wrapped object)                                                         *)
(***************************************************************************)
\* The n-th free cell (n = 0 for the first).
NthFree(h, n) == CHOOSE i \in Free(h) : Cardinality({k \in Free(h) : k < i}) = n

\* The views of a dictionary cannot be copied: copy raises TypeError.
Uncopyable == {"dict_items", "dict_keys", "dict_values"}

\* copy.copy(obj): a tuple is returned as it is, any other object gives a
\* new object of the same class with the same attributes and items.
ShallowCopySame(h, i) == Ok(Ref(i), h)
ShallowCopy(h, i) ==
    IF h[i].cls \in Uncopyable THEN Raise(Err("TypeError"), h)
    ELSE IF h[i].cls = "tuple" THEN Ok(Ref(i), h)
    ELSE Ok(Ref(Fresh(h)), Alloc(h, h[i]))

\* copy.deepcopy duplicates obj: always, but for a tuple only when it
\* duplicates one of its items.
RECURSIVE Duplicated(_, _)
Duplicated(h, i) ==
    IF h[i].cls = "tuple"
    THEN \E j \in 1..Len(h[i].items) :
            IsRef(h[i].items[j]) /\ Duplicated(h, h[i].items[j].v)
    ELSE TRUE

\* The objects copy.deepcopy(obj) duplicates, and the cell of each copy.
DeepCopied(h, i) == {j \in Reach(h, {i}) : Duplicated(h, j)}
CopyCell(h, S, j) == NthFree(h, Cardinality({k \in S : k < j}))
Moved(h, S, val) ==
    IF IsRef(val) /\ val.v \in S THEN Ref(CopyCell(h, S, val.v)) ELSE val
\* copy.deepcopy(obj)
DeepCopyOf(h, S, i) ==
    Ok(Moved(h, S, Ref(i)),
       [c \in {CopyCell(h, S, j) : j \in S} |->
            LET o == h[CHOOSE j \in S : CopyCell(h, S, j) = c]
            IN  Obj(o.cls, [n \in DOMAIN o.attrs |-> Moved(h, S, o.attrs[n])],
                    [k \in 1..Len(o.items) |-> Moved(h, S, o.items[k])])] @@ h)
DeepCopy(h, i) ==
    IF h[i].cls \in Uncopyable THEN Raise(Err("TypeError"), h)
    ELSE DeepCopyOf(h, DeepCopied(h, i), i)

\* ImmutableProxy.__copy__ and __deepcopy__
ProxyCopy(h, p, deep) ==
    IF deep THEN DeepCopy(h, h[p].attrs["_instance"].v)
    ELSE ShallowCopy(h, h[p].attrs["_instance"].v)

(***************************************************************************)
(* getattr(val, a) and val[k] for any value, by the class of val           *)
(***************************************************************************)
GetAttr(h, imm, reg, val, a) ==
    IF ~IsRef(val) THEN Raise(Err("AttributeError"), h)
    ELSE IF ~IsProxy(h, val) THEN
        CASE AttrKind(h, val, a) = "missing" -> Raise(Err("AttributeError"), h)
          [] AttrKind(h, val, a) = "bound" -> Ok(FnV, h)
          [] AttrKind(h, val, a) = "data" -> Ok(h[val.v].attrs[a], h)
    ELSE IF a \in DOMAIN h[val.v].attrs THEN Ok(h[val.v].attrs[a], h)
    ELSE IF a \in ProxyClassNames THEN Ok(FnV, h)
    ELSE IF IsSubclass(h[val.v].cls, "BuiltinImmutableProxy") THEN BuiltinGetAttr(h, val.v, a)
    ELSE IF IsSubclass(h[val.v].cls, "DeepImmutableProxy") THEN DeepGetAttr(h, imm, reg, val.v, a)
    ELSE ProxyGetAttr(h, val.v, a)

GetItem(h, imm, reg, val, k) ==
    IF ~IsRef(val) THEN Raise(Err("TypeError"), h)
    ELSE IF ~IsProxy(h, val) THEN RawGetItem(h, val, k)
    ELSE IF IsSubclass(h[val.v].cls, "BuiltinImmutableProxy") THEN BuiltinGetItem(h, imm, reg, val.v, k)
    ELSE IF IsSubclass(h[val.v].cls, "DeepImmutableProxy") THEN DeepGetItem(h, imm, reg, val.v, k)
    ELSE ProxyGetItem(h, val.v, k)

(***************************************************************************)
(* Iteration.  iter(val) calls type(val).__iter__: the one of the built-in *)
(* container or view, and for every proxy ImmutableProxy.__iter__, which   *)
(* the deep proxy and the adapters inherit.                                *)
(***************************************************************************)
\* The built-in class that gives the class c its __iter__ ("none").
IterClass(c) ==
    IF \E d \in Range(Mro(c)) : d \in {"list", "tuple", "dict"} \cup Uncopyable
    THEN CHOOSE d \in Range(Mro(c)) : d \in {"list", "tuple", "dict"} \cup Uncopyable
    ELSE "none"

\* The items that the iterator of the container or view in cell i goes
\* through: the items of a list or tuple, the items of the dictionary of a
\* view.
IterItems(h, i) ==
    IF IterClass(h[i].cls) \in Uncopyable THEN h[h[i].attrs["_dict"].v].items
    ELSE h[i].items

\* The k-th value that iter(inst) produces for an object that is no proxy:
\* an item of a list or tuple, a key of a dictionary or of its keys view,
\* a value of its values view, a new tuple (key, value) of its items view.
RawIter(h, inst, k) ==
    IF ~IsRef(inst) \/ IterClass(h[inst.v].cls) = "none" THEN Raise(Err("TypeError"), h)
    ELSE IF k \notin 1..Len(IterItems(h, inst.v)) THEN Raise(Err("StopIteration"), h)
    ELSE CASE IterClass(h[inst.v].cls) \in {"list", "tuple", "dict_values"} ->
                Ok(IterItems(h, inst.v)[k], h)
           [] IterClass(h[inst.v].cls) \in {"dict", "dict_keys"} -> Ok(IntV(k), h)
           [] IterClass(h[inst.v].cls) = "dict_items" ->
                Ok(Ref(Fresh(h)),
                   Alloc(h, Obj("tuple", NoAttrs, <<IntV(k), IterItems(h, inst.v)[k]>>)))

\* ImmutableProxy.__iter__: iter(self._instance)
ProxyIter(h, p, k) == RawIter(h, h[p].attrs["_instance"], k)

\* The k-th value that iter(val) produces.
IterOf(h, val, k) ==
    IF IsRef(val) /\ IsProxy(h, val) THEN ProxyIter(h, val.v, k)
    ELSE RawIter(h, val, k)

(***************************************************************************)
(* superpatch.py                                                           *)
(***************************************************************************)
IndexIn(s, x) == CHOOSE i \in 1..Len(s) : s[i] = x

\* The first class c of s for which getattr(c, attr) succeeds; the result
\* is the class whose function getattr returns ("none": no such class).
RECURSIVE FirstHaving(_, _)
FirstHaving(s, attr) ==
    IF s = <<>> THEN "none"
    ELSE IF ClassGetAttr(Head(s), attr) # "none" THEN ClassGetAttr(Head(s), attr)
    ELSE FirstHaving(Tail(s), attr)

\* _find_attribute(mro, attr): the first class of mro is the parent and is
\* skipped.
\* Variant: the first class of mro is searched too.
FindAttributeNoSkip(mro, attr) == FirstHaving(mro, attr)
FindAttribute(mro, attr) == FirstHaving(Tail(mro), attr)

\* The first class c of s for which getattr(c, attr) succeeds ("none").
RECURSIVE FirstVia(_, _)
FirstVia(s, attr) ==
    IF s = <<>> THEN "none"
    ELSE IF ClassGetAttr(Head(s), attr) # "none" THEN Head(s)
    ELSE FirstVia(Tail(s), attr)
\* The class on which _find_attribute(mro, attr) reads the attribute.
FindVia(mro, attr) == FirstVia(Tail(mro), attr)

\* The class whose ancestor order super_patch() uses for the receiver.
\* Variant: the class of the first argument, proxy or not.
InstanceClsOfProxy(h, first) == TypeOf(h, first)
InstanceCls(h, first) ==
    IF IsInstance(h, first, "_ImmutableWrapper") THEN GetType(h, first.v)
    ELSE TypeOf(h, first)

\* The receiver the closure _method of _ClassProxy passes on.
\* Variant: the wrapped object is passed on instead of the proxy.
ClassProxyReceiverRaw(h, first) ==
    IF IsInstance(h, first, "_ImmutableWrapper") THEN h[first.v].attrs["_instance"]
    ELSE first
ClassProxyReceiver(h, first) == first

\* What the attribute access super().attr gives:
\*   "callable": an object whose call runs the function attr of class cls
\*      with the arguments args (kind: how cls defines attr; a property or
\*      a slot read on a class is the descriptor, which cannot be called);
\*   "getter": the getter of the property attr of cls runs with args[1];
\*   "value": the value val;  "error": the exception out is raised.
Callable(c, kind, args) ==
    [out |-> NoExc, what |-> "callable", cls |-> c, kind |-> kind, args |-> args,
     val |-> NoneV]
Getter(c, recv) ==
    [out |-> NoExc, what |-> "getter", cls |-> c, kind |-> "property",
     args |-> <<recv>>, val |-> NoneV]
Value(val) ==
    [out |-> NoExc, what |-> "value", cls |-> "none", kind |-> "", args |-> <<>>,
     val |-> val]
Unresolved(e) ==
    [out |-> e, what |-> "error", cls |-> "none", kind |-> "", args |-> <<>>,
     val |-> NoneV]

\* getattr(via, attr) for the class via, when class c defines attr: a
\* class-level method comes bound to via, a function comes unbound.
ClassAttr(via, c, attr) ==
    Callable(c, AttrKindOf(c, attr),
             IF AttrKindOf(c, attr) = "classmethod" THEN <<TypeV(via)>> ELSE <<>>)

\* descriptor.__get__(instance, None) for the slot attr of class c: the
\* descriptor checks that instance is an instance of c.
MemberGet(h, c, instance, attr) ==
    IF IsRef(instance) /\ IsSubclass(TypeOf(h, instance), c)
    THEN IF attr \in DOMAIN h[instance.v].attrs
         THEN Value(h[instance.v].attrs[attr])
         ELSE Unresolved(Err("AttributeError"))
    ELSE Unresolved(Err("TypeError"))

\* The AttributeError of _find_attribute: it names the first class of mro.
\* Variant: the message names no class.
MissingAttributeAnonymous(mro, attr) == ExcRec("AttributeError", "super", "", attr, "super")
MissingAttribute(mro, attr) == ExcRec("AttributeError", mro[1], "", attr, "super")

\* _ClassProxy(mro, instance).__getattribute__(attr), where c is the class
\* whose attribute _find_attribute returns.
ClassProxyGetOf(h, c, mro, instance, attr) ==
    IF c = "none" THEN Unresolved(MissingAttribute(mro, attr))
    ELSE IF instance = NoneV THEN ClassAttr(FindVia(mro, attr), c, attr)
    ELSE IF AttrKindOf(c, attr) = "member" THEN MemberGet(h, c, instance, attr)
    ELSE Callable(c, AttrKindOf(c, attr),
                  ClassAttr(FindVia(mro, attr), c, attr).args
                      \o <<ClassProxyReceiver(h, instance)>>)
ClassProxyGet(h, mro, instance, attr) ==
    ClassProxyGetOf(h, FindAttribute(mro, attr), mro, instance, attr)

\* super_patch().attr in a function of klass whose first argument is first.
SuperPatchOf(h, mro, klass, first, attr) ==
    IF first.k = "type" /\ IsSubclass(ClassOf(first), klass)
    THEN ClassProxyGet(h, Mro(klass), NoneV, attr)
    ELSE IF klass \notin Range(mro) THEN Unresolved(Err("ValueError"))
    ELSE ClassProxyGet(h, SubSeq(mro, IndexIn(mro, klass), Len(mro)), first, attr)
SuperPatch(h, klass, first, attr) ==
    SuperPatchOf(h, Mro(InstanceCls(h, first)), klass, first, attr)

\* super_patch(type_, obj).attr
SuperPatchExplicit(h, type_, obj, attr) == ClassProxyGet(h, Mro(type_), obj, attr)

\* _get_class_and_instance reads __class__ and the first argument in the
\* frame of the caller: f is that frame, and the result is what stops
\* super_patch() there (NoExc: nothing).  Only AttributeError, raised when
\* the implementation has no frames, is turned into RuntimeError.
FrameError(f) ==
    IF f.cls = NoClass THEN Err("KeyError")
    ELSE IF f.self = NoArg THEN Err("IndexError")
    ELSE NoExc

\* super_patch(...).attr in frame f; k is the class given to the explicit
\* form ("" for the form without arguments).
SuperPatchIn(h, f, k, attr) ==
    IF k # "" THEN SuperPatchExplicit(h, k, f.self, attr)
    ELSE IF FrameError(f) # NoExc THEN Unresolved(FrameError(f))
    ELSE SuperPatch(h, f.cls, f.self, attr)

\* The built-in super(klass, first).attr, where mro is the ancestor order
\* of first (a class) or of its type, and c the class found after klass.
BuiltinSuperOf(h, c, isCls, start, first, attr) ==
    IF c = "none" THEN Unresolved(ExcRec("AttributeError", "super", "", attr, "super"))
    ELSE CASE AttrKindOf(c, attr) = "function" ->
                Callable(c, "function", IF isCls THEN <<>> ELSE <<first>>)
           [] AttrKindOf(c, attr) = "classmethod" ->
                Callable(c, "classmethod", <<TypeV(start)>>)
           [] AttrKindOf(c, attr) = "staticmethod" -> Callable(c, "staticmethod", <<>>)
           [] AttrKindOf(c, attr) = "property" ->
                IF isCls THEN Callable(c, "property", <<>>) ELSE Getter(c, first)
           [] AttrKindOf(c, attr) = "member" ->
                IF isCls THEN Callable(c, "member", <<>>) ELSE MemberGet(h, c, first, attr)
BuiltinSuperFrom(h, klass, start, first, attr) ==
    IF klass \notin Range(Mro(start)) THEN Unresolved(Err("TypeError"))
    ELSE BuiltinSuperOf(h,
            FirstDefining(SubSeq(Mro(start), IndexIn(Mro(start), klass) + 1,
                                 Len(Mro(start))), attr),
            first.k = "type", start, first, attr)
BuiltinSuper(h, klass, first, attr) ==
    BuiltinSuperFrom(h, klass,
                     IF first.k = "type" THEN ClassOf(first) ELSE TypeOf(h, first),
                     first, attr)

\* The built-in super(...).attr in frame f.
BuiltinSuperIn(h, f, k, attr) ==
    IF k # "" THEN BuiltinSuper(h, k, f.self, attr)
    ELSE IF f.cls = NoClass \/ f.self = NoArg THEN Unresolved(Err("RuntimeError"))
    ELSE BuiltinSuper(h, f.cls, f.self, attr)

\* super(...).attr with the super that builtins holds at the moment.
SuperLookup(h, bs, f, k, attr) ==
    IF bs = "super_patch" THEN SuperPatchIn(h, f, k, attr)
    ELSE BuiltinSuperIn(h, f, k, attr)

\* The number of arguments a function takes, by the way its class defines it.
Arity(kind) == IF kind = "staticmethod" THEN 0 ELSE 1

\* What the statement acc = super(...).attr or acc = super(...).attr() does
\* with the attribute r: "push" starts the function attr of class cls with
\* first argument self, "store" puts val in acc, "raise" raises out.
Push(c, self) == [do |-> "push", cls |-> c, self |-> self, val |-> NoneV, out |-> NoExc]
Store(val) == [do |-> "store", cls |-> "none", self |-> NoneV, val |-> val, out |-> NoExc]
Fail(e) == [do |-> "raise", cls |-> "none", self |-> NoneV, val |-> NoneV, out |-> e]
Applied(r, call) ==
    CASE r.what = "error" -> Fail(r.out)
      [] r.what = "value" -> IF call THEN Fail(Err("TypeError")) ELSE Store(r.val)
      [] r.what = "getter" ->
            \* the value the getter returns is no callable in the classes modelled
            IF call THEN Fail(Err("TypeError")) ELSE Push(r.cls, r.args[1])
      [] r.what = "callable" ->
            IF ~call THEN Store(FnV)
            ELSE IF r.kind \in {"property", "member"} \/ Len(r.args) # Arity(r.kind)
            THEN Fail(Err("TypeError"))
            ELSE Push(r.cls, IF r.args = <<>> THEN NoArg ELSE r.args[1])

(***************************************************************************)
(* Frames and the client's view                                            *)
(***************************************************************************)
\* kind "body": a function of class cls running with first argument self,
\*   at instruction pc; acc is the result of its last call.
\* kind "wrapper": the closure _proxy_method of _define_method around the
\*   function meth of class cls; pc 0 before the try, 1 inside it (with the
\*   saved super in old); entry is builtins.super when it was called.
\* kind "ctor": ImmutableMeta.__call__ between the reset of the freeze flag
\*   and the freeze, for the instance self built from arg.
Frame(kind, cls, meth, self, arg, pc, old, entry) ==
    [kind |-> kind, cls |-> cls, meth |-> meth, self |-> self, arg |-> arg,
     pc |-> pc, acc |-> NoneV, old |-> old, entry |-> entry]
BodyFrame(cls, meth, self) == Frame("body", cls, meth, self, NoneV, 1, "", "")
CtorFrame(cls, self, arg) == Frame("ctor", cls, "__call__", self, arg, 1, "", "")

Top(stk) == stk[Len(stk)]
Pop(stk) == SubSeq(stk, 1, Len(stk) - 1)
SetTop(stk, f) == [stk EXCEPT ![Len(stk)] = f]

NoSnap == [i \in {} |-> 0]
\* What the client sees of a value: of a proxy, its class and the object it
\* wraps (two reads of a deep proxy give two proxies of the same object).
Shown(h, val) ==
    IF IsRef(val) /\ IsProxy(h, val)
    THEN [k |-> h[val.v].cls, v |-> h[val.v].attrs["_instance"].v]
    ELSE val
\* What the client sees when it reads val.a.
Seen(g) == [out |-> g.out.kind, val |-> Shown(g.h, g.val)]
ReadSeen(h, imm, reg, val, a) == Seen(GetAttr(h, imm, reg, val, a))
NotRead == [out |-> "", val |-> NoneV]

\* The record the client keeps of an operation: what it did (op, tgt and
\* its class, name, arg), what came out (out, val), the objects that
\* existed before and have changed, the classes of the objects allocated,
\* builtins.super at the start, the heap at the start (while it runs) and,
\* for a write or a delete, what reading the attribute gave just before;
\* inst is the object the target wraps when the target is a proxy, and icls
\* the class of that object.
LastRec(op, tgt, tcls, name, arg, out, val, changed, new, sup, pre) ==
    [op |-> op, tgt |-> tgt, tcls |-> tcls, name |-> name, arg |-> arg,
     out |-> out, val |-> val, changed |-> changed, new |-> new, sup |-> sup,
     pre |-> pre, before |-> NotRead, inst |-> NoneV, icls |-> ""]
Running == Err("running")

\* The heap once the objects the client cannot reach any more are freed.
Collect(h, rootVals) ==
    LET roots == RawIds \cup {v.v : v \in {w \in rootVals : IsRef(w)}}
        live == Reach(h, roots)
    IN  [i \in live |-> h[i]]

\* The reference the client holds after an operation gave val.
NextCur(c, val) == IF IsRef(val) THEN val ELSE c

(***************************************************************************)
(* The initial state: the package is imported, nothing is wrapped.         *)
(***************************************************************************)
NoLast == LastRec("none", NoneV, "", "", NoneV, NoExc, NoneV, {}, {}, "super", NoSnap)

Init ==
    /\ heap = RawWorld
    /\ bsuper = "super"
    /\ immTypes = BuiltinRegistered
    /\ regProxies = InitialProxies
    /\ stack = [t \in Threads |-> <<>>]
    /\ exc = [t \in Threads |-> NoExc]
    /\ cur = [t \in Threads |-> NoneV]
    /\ last = [t \in Threads |-> NoLast]
    /\ trace = [t \in Threads |-> <<>>]

(***************************************************************************)
(* What the client code does.  It holds the objects of the initial world   *)
(* and, in cur, the last reference an operation gave it.                   *)
(***************************************************************************)
\* No call of thread t is running, and the client has looked at the result
\* of its last operation.
Idle(t) == stack[t] = <<>> /\ exc[t] = NoExc /\ last[t] = NoLast
HasRoom == Cardinality(Free(heap)) >= 2

WrapClasses == {"ImmutableProxy", "DeepImmutableProxy"}
ImmutableClasses == {"ImmA", "ImmB", "Other", "DecD"}
\* The arguments the client gives to the two wrappers.
\* val is an object that a copy of the client made.
IsCopy(h, val) ==
    /\ IsRef(val) /\ val.v \in DynIds
    /\ ~HasImmutableMeta(h[val.v].cls)
    /\ h[val.v].cls \in {"A", "B", "C", "K", "M", "list", "tuple", "dict"}
WrapArgs(t) ==
    {Ref(i) : i \in RawIds} \cup {v \in {cur[t]} : IsRef(v) /\ ~IsCopy(heap, v)}
        \cup {IntV(1), StrV, NoneV}
\* The objects of the initial world that the client also uses directly.
RawMutable == {Ref(1)}
\* The objects the client reads, writes and calls.
ClientRefs(t) == {v \in {cur[t]} : IsRef(v)} \cup RawMutable
\* The instance of M that the proxy the client holds wraps: the client
\* calls a method on the proxy and on the instance itself.
Wrapped(t) ==
    {heap[v.v].attrs["_instance"] : v \in {w \in {cur[t]} : IsRef(w) /\ IsProxy(heap, w)
                                                     /\ GetType(heap, w.v) = "M"}}
ReadNames == {"x", "peer", "lst", "f", "t", "get_x", "append", "cb"}
WriteNames == {"x", "t"}
MethodNames == {"get_x", "set_x", "del_x", "nest"}
\* The methods that call super() in its other forms, called on the objects
\* that have them.
SuperNames == {"miss", "do", "via", "viax", "missx", "gy", "gs", "callcn",
               "callcmiss", "callst", "fn", "nestm", "coro"}
AdapterNames == {"index", "count", "get", "items", "keys", "values", "append", "update"}
ArgValues == {IntV(1)}
KeyValues == {1, 2, 3}
\* The writes the client makes: any on a write-once instance or a proxy,
\* the attribute x on the objects it changes directly.
MayMutate(o, a) ==
    \/ HasImmutableMeta(TypeOf(heap, o))
    \/ (o \in RawMutable \/ IsCopy(heap, o)) /\ a = "x"

IsAdapter(h, o) == IsInstance(h, o, "BuiltinImmutableProxy")

\* The references held by the frames of all stacks and by the clients.
FrameRefs(stk) == UNION {{stk[i].self, stk[i].arg, stk[i].acc} : i \in 1..Len(stk)}
Roots(curF, stackF) ==
    {curF[u] : u \in Threads} \cup UNION {FrameRefs(stackF[u]) : u \in Threads}

\* The operation of thread t ends with result r; rec is its record.
Finish(t, rec, r) ==
    LET c == [cur EXCEPT ![t] = NextCur(@, r.val)]
    IN  /\ cur' = c
        /\ heap' = Collect(r.h, Roots(c, [stack EXCEPT ![t] = <<>>]))
        /\ last' = [last EXCEPT ![t] =
                [rec EXCEPT !.out = r.out, !.val = r.val,
                            !.changed = {i \in (DOMAIN rec.pre) \cap (DOMAIN r.h) :
                                            r.h[i] # rec.pre[i]},
                            !.new = {r.h[i].cls : i \in (DOMAIN r.h) \ (DOMAIN rec.pre)},
                            !.pre = NoSnap]]

Start(op, tgt, name, arg) ==
    [LastRec(op, tgt, TypeOf(heap, tgt), name, arg, Running, NoneV, {}, {}, bsuper, heap)
        EXCEPT !.before = IF op \in {"setattr", "delattr"}
                          THEN ReadSeen(heap, immTypes, regProxies, tgt, name)
                          ELSE NotRead,
               !.inst = IF IsRef(tgt) /\ IsProxy(heap, tgt)
                        THEN heap[tgt.v].attrs["_instance"] ELSE NoneV,
               !.icls = IF IsRef(tgt) /\ IsProxy(heap, tgt)
                        THEN TypeOf(heap, heap[tgt.v].attrs["_instance"]) ELSE ""]

\* A frame returns val to the frames stk below it (to the client if none).
ReturnTo(t, stk, val, h) ==
    IF stk = <<>>
    THEN /\ Finish(t, last[t], Ok(val, h))
         /\ stack' = [stack EXCEPT ![t] = <<>>]
    ELSE /\ stack' = [stack EXCEPT ![t] = SetTop(stk, [Top(stk) EXCEPT !.acc = val])]
         /\ heap' = h
         /\ UNCHANGED <<cur, last>>

\* The exception e leaves a frame towards the frames stk below it.
ThrowTo(t, stk, e, h) ==
    IF stk = <<>>
    THEN /\ Finish(t, last[t], Raise(e, h))
         /\ stack' = [stack EXCEPT ![t] = <<>>]
         /\ exc' = [exc EXCEPT ![t] = NoExc]
    ELSE /\ stack' = [stack EXCEPT ![t] = stk]
         /\ exc' = [exc EXCEPT ![t] = e]
         /\ heap' = h
         /\ UNCHANGED <<cur, last>>

Entered(f) == [cls |-> f.cls, meth |-> f.meth, recv |-> f.self]

\* cls(w): ImmutableMeta.__call__ up to the call of __init__.
WrapCallOf(t, classes, args) ==
    /\ Idle(t) /\ HasRoom
    /\ \E cls \in classes, w \in args :
        \E r \in {MetaNew(heap, immTypes, regProxies, cls, w)} :
        \E rec \in {Start("wrap", w, cls, NoneV)} :
            /\ trace' = [trace EXCEPT ![t] = <<>>]
            /\ IF r.init
               THEN /\ heap' = r.h
                    /\ stack' = [stack EXCEPT ![t] = <<CtorFrame(cls, r.val, w)>>]
                    /\ last' = [last EXCEPT ![t] = rec]
                    /\ UNCHANGED <<cur, exc>>
               ELSE /\ Finish(t, rec, [out |-> r.out, val |-> r.val, h |-> r.h])
                    /\ UNCHANGED <<stack, exc>>
            /\ UNCHANGED <<bsuper, immTypes, regProxies>>
WrapCall(t) == WrapCallOf(t, WrapClasses, WrapArgs(t))

\* c(): ImmutableMeta.__call__ for a class of write-once instances, up to
\* the call of __init__.
Construct(t) ==
    \E c \in ImmutableClasses :
        LET self == Ref(Fresh(heap))
            init == BodyFrame(ClassGetAttr(c, "__init__"), "__init__", self)
        IN  /\ Idle(t) /\ HasRoom
            /\ heap' = Alloc(heap, Obj(c, [n \in {"__frozen"} |-> BoolV(FALSE)], <<>>))
            /\ stack' = [stack EXCEPT ![t] = <<CtorFrame(c, self, NoneV), init>>]
            /\ last' = [last EXCEPT ![t] = Start("construct", NoneV, c, NoneV)]
            /\ trace' = [trace EXCEPT ![t] = <<Entered(init)>>]
            /\ UNCHANGED <<bsuper, immTypes, regProxies, cur, exc>>

\* ImmutableMeta.__call__ after __init__ has returned: the freeze.
CtorReturn(t) ==
    /\ stack[t] # <<>> /\ exc[t] = NoExc
    /\ Top(stack[t]).kind = "ctor"
    /\ LET f == Top(stack[t])
       IN  ReturnTo(t, Pop(stack[t]), f.self, MetaInit(heap, f.self.v, f.arg))
    /\ UNCHANGED <<bsuper, immTypes, regProxies, exc, trace>>

\* o.a
ReadAttr(t) ==
    \E o \in ClientRefs(t), a \in ReadNames :
        /\ Idle(t) /\ HasRoom
        /\ Finish(t, Start("getattr", o, a, NoneV), GetAttr(heap, immTypes, regProxies, o, a))
        /\ trace' = [trace EXCEPT ![t] = <<>>]
        /\ UNCHANGED <<bsuper, immTypes, regProxies, stack, exc>>

\* o[k]
ReadItem(t) ==
    \E o \in ClientRefs(t), k \in KeyValues :
        /\ Idle(t) /\ HasRoom
        /\ Finish(t, Start("getitem", o, "", IntV(k)), GetItem(heap, immTypes, regProxies, o, k))
        /\ trace' = [trace EXCEPT ![t] = <<>>]
        /\ UNCHANGED <<bsuper, immTypes, regProxies, stack, exc>>

\* The k-th value of: for v in o
Iterate(t) ==
    \E o \in ClientRefs(t), k \in KeyValues :
        /\ Idle(t) /\ HasRoom
        /\ Finish(t, Start("iter", o, "", IntV(k)), IterOf(heap, o, k))
        /\ trace' = [trace EXCEPT ![t] = <<>>]
        /\ UNCHANGED <<bsuper, immTypes, regProxies, stack, exc>>

\* o.a = 5
SetAttr(t) ==
    \E o \in ClientRefs(t), a \in WriteNames :
        /\ Idle(t) /\ HasRoom /\ MayMutate(o, a)
        /\ Finish(t, Start("setattr", o, a, IntV(5)), SetAttrOf(heap, o, a, IntV(5)))
        /\ trace' = [trace EXCEPT ![t] = <<>>]
        /\ UNCHANGED <<bsuper, immTypes, regProxies, stack, exc>>

\* del o.a
DelAttr(t) ==
    \E o \in ClientRefs(t), a \in WriteNames :
        /\ Idle(t) /\ HasRoom /\ MayMutate(o, a)
        /\ Finish(t, Start("delattr", o, a, NoneV), DelAttrOf(heap, o, a))
        /\ trace' = [trace EXCEPT ![t] = <<>>]
        /\ UNCHANGED <<bsuper, immTypes, regProxies, stack, exc>>

\* o.m(arg) on an adapter of a built-in container
AdapterCall(t) ==
    \E o \in ClientRefs(t), m \in AdapterNames, arg \in ArgValues :
        /\ Idle(t) /\ HasRoom /\ IsAdapter(heap, o)
        /\ Finish(t, Start("call", o, m, arg),
                  BuiltinMethodCall(heap, immTypes, regProxies, o.v, m, arg))
        /\ trace' = [trace EXCEPT ![t] = <<>>]
        /\ UNCHANGED <<bsuper, immTypes, regProxies, stack, exc>>

\* o[k] = 9 and o[k-1:k] = [9] on a proxy
SetItem(t) ==
    /\ Idle(t) /\ HasRoom
    /\ \E o \in ClientRefs(t), k \in KeyValues, slice \in BOOLEAN :
        /\ IsProxy(heap, o)
        /\ Finish(t, Start("setitem", o, IF slice THEN "slice" ELSE "index", IntV(k)),
                  SetItemOf(heap, o, k, slice, IntV(9)))
    /\ trace' = [trace EXCEPT ![t] = <<>>]
    /\ UNCHANGED <<bsuper, immTypes, regProxies, stack, exc>>

\* The values whose type the client asks, and the classes it asks about.
TypeArgs == {<<"B", NoneV>>, <<"list", NoneV>>, <<"ImmutableProxy", NoneV>>,
             <<"dict", TypeV("A")>>}
\* get_type(o) and is_instance(o, T)
CheckType(t) ==
    /\ Idle(t) /\ HasRoom
    /\ \E o \in ClientRefs(t) \cup {StrV} :
        \/ Finish(t, Start("get_type", o, "", NoneV),
                  Ok(TypeV(GetTypeOf(heap, o)), heap))
        \/ \E T \in TypeArgs :
              Finish(t, Start("is_instance", o, T[1], T[2]),
                     Ok(BoolV(IsInstanceOf(heap, o, T[1], T[2])), heap))
    /\ trace' = [trace EXCEPT ![t] = <<>>]
    /\ UNCHANGED <<bsuper, immTypes, regProxies, stack, exc>>

\* copy(o) and deepcopy(o) of a proxy
Copy(t) ==
    /\ Idle(t) /\ HasRoom
    /\ \E o \in ClientRefs(t), deep \in BOOLEAN :
        /\ IsProxy(heap, o)
        /\ deep /\ TypeOf(heap, heap[o.v].attrs["_instance"]) \notin Uncopyable =>
                Cardinality(Free(heap)) >=
                    Cardinality(DeepCopied(heap, heap[o.v].attrs["_instance"].v))
        /\ Finish(t, Start(IF deep THEN "deepcopy" ELSE "copy", o, "", NoneV),
                  ProxyCopy(heap, o.v, deep))
    /\ trace' = [trace EXCEPT ![t] = <<>>]
    /\ UNCHANGED <<bsuper, immTypes, regProxies, stack, exc>>

\* ImmutableProxy.register_immutable(c)
RegisterImmutable(t) ==
    \E c \in {"K"} :
        /\ Idle(t) /\ c \notin Range(immTypes)
        /\ immTypes' = Append(immTypes, c)
        /\ UNCHANGED <<heap, bsuper, regProxies, stack, exc, cur, last, trace>>

\* The client drops the result of its last operation (it keeps cur).
Discard(t) ==
    /\ stack[t] = <<>> /\ last[t] # NoLast
    /\ last' = [last EXCEPT ![t] = NoLast]
    /\ trace' = [trace EXCEPT ![t] = <<>>]
    /\ UNCHANGED <<heap, bsuper, immTypes, regProxies, stack, exc, cur>>

(***************************************************************************)
(* Calls of the methods of the wrapped classes                             *)
(***************************************************************************)
\* The first argument _proxy_method passes to the wrapped function.
DefineMethodReceiver(h, p) == p

\* The frame that target.m() starts: the closure of _define_method for a
\* proxy, the function itself for another object.
CalleeFrame(h, bs, target, m) ==
    IF IsProxy(h, target)
    THEN Frame("wrapper", ClassGetAttr(GetType(h, target.v), m), m, target, NoneV, 0, "", bs)
    ELSE BodyFrame(ClassGetAttr(h[target.v].cls, m), m, target)

\* o.m() where o is no adapter: the attribute read, then the call.
CallMethodOf(t, objs, names) ==
    /\ Idle(t) /\ HasRoom
    /\ \E o \in objs, m \in names :
        /\ ~IsAdapter(heap, o)
        /\ IsProxy(heap, o) \/ m \in {"get_x", "nest"} \cup SuperNames \/ o \in RawMutable
        /\ m \in SuperNames => ClassGetAttr(GetTypeOf(heap, o), m) # "none"
        /\ \E g \in {GetAttr(heap, immTypes, regProxies, o, m)} :
           \E f \in {CalleeFrame(heap, bsuper, o, m)} :
           \E rec \in {Start("call", o, m, NoneV)} :
               IF IsOk(g) /\ g.val = FnV
               THEN /\ stack' = [stack EXCEPT ![t] = <<f>>]
                    /\ last' = [last EXCEPT ![t] = rec]
                    /\ trace' = [trace EXCEPT ![t] =
                                    IF f.kind = "body" THEN <<Entered(f)>> ELSE <<>>]
                    /\ UNCHANGED <<heap, cur>>
               ELSE /\ Finish(t, rec, IF IsOk(g) THEN Raise(Err("TypeError"), g.h) ELSE g)
                    /\ trace' = [trace EXCEPT ![t] = <<>>]
                    /\ UNCHANGED stack
    /\ UNCHANGED <<bsuper, immTypes, regProxies, exc>>
CallMethod(t) ==
    CallMethodOf(t, ClientRefs(t) \cup Wrapped(t), MethodNames \cup SuperNames)

\* old_super = super: the name super is read in builtins at that moment.
\* Variant: the built-in super is saved, whatever builtins holds.
SavedSuperBuiltin(now) == "super"
SavedSuper(now) == now

\* _proxy_method up to the call of the wrapped function: builtins.super is
\* saved and replaced, the function is called with the proxy as receiver.
Install(t) ==
    /\ stack[t] # <<>> /\ exc[t] = NoExc
    /\ Top(stack[t]).kind = "wrapper" /\ Top(stack[t]).pc = 0
    /\ Len(stack[t]) < MaxDepth
    /\ LET f == Top(stack[t])
           body == BodyFrame(f.cls, f.meth, DefineMethodReceiver(heap, f.self))
       IN  /\ bsuper' = "super_patch"
           /\ stack' = [stack EXCEPT ![t] =
                  Append(SetTop(@, [f EXCEPT !.pc = 1, !.old = SavedSuper(bsuper)]), body)]
           /\ trace' = [trace EXCEPT ![t] = Append(@, Entered(body))]
    /\ UNCHANGED <<heap, immTypes, regProxies, exc, cur, last>>

\* The value _proxy_method leaves in builtins.super in its finally clause.
\* Variant: builtins.super is left as it is.
RestoredSuperKeep(old, now) == now
RestoredSuper(old, now) == old

\* _proxy_method after the wrapped function has returned.
Restore(t) ==
    /\ stack[t] # <<>> /\ exc[t] = NoExc
    /\ Top(stack[t]).kind = "wrapper" /\ Top(stack[t]).pc = 1
    /\ LET f == Top(stack[t])
       IN  /\ bsuper' = RestoredSuper(f.old, bsuper)
           /\ ReturnTo(t, Pop(stack[t]), f.acc, heap)
    /\ UNCHANGED <<immTypes, regProxies, exc, trace>>

\* An exception leaves _proxy_method through its finally clause.
UnwindWrapper(t) ==
    /\ stack[t] # <<>> /\ exc[t] # NoExc
    /\ Top(stack[t]).kind = "wrapper"
    /\ LET f == Top(stack[t])
       IN  /\ bsuper' = RestoredSuper(f.old, bsuper)
           /\ ThrowTo(t, Pop(stack[t]), exc[t], heap)
    /\ UNCHANGED <<immTypes, regProxies, trace>>

\* An exception leaves a function or ImmutableMeta.__call__.
UnwindFrame(t) ==
    /\ stack[t] # <<>> /\ exc[t] # NoExc
    /\ Top(stack[t]).kind # "wrapper"
    /\ ThrowTo(t, Pop(stack[t]), exc[t], heap)
    /\ UNCHANGED <<bsuper, immTypes, regProxies, trace>>

\* The instruction the innermost frame of t is about to execute.
AtIns(t, ops) ==
    /\ stack[t] # <<>> /\ exc[t] = NoExc
    /\ Top(stack[t]).kind = "body"
    /\ Body(Top(stack[t]).cls, Top(stack[t]).meth)[Top(stack[t]).pc].op \in ops
CurIns(t) == Body(Top(stack[t]).cls, Top(stack[t]).meth)[Top(stack[t]).pc]
Advance(stk) == SetTop(stk, [Top(stk) EXCEPT !.pc = @ + 1])

\* A result that is stored, or an exception that starts to propagate.
Effect(t, r) ==
    /\ heap' = r.h
    /\ IF IsOk(r)
       THEN /\ stack' = [stack EXCEPT ![t] = Advance(@)]
            /\ UNCHANGED exc
       ELSE /\ exc' = [exc EXCEPT ![t] = r.out]
            /\ UNCHANGED stack

\* self.a = n
ExecSet(t) ==
    /\ AtIns(t, {"set"})
    /\ Effect(t, SetAttrOf(heap, Top(stack[t]).self, CurIns(t).a, IntV(CurIns(t).n)))
    /\ UNCHANGED <<bsuper, immTypes, regProxies, cur, last, trace>>

\* del self.a
ExecDel(t) ==
    /\ AtIns(t, {"del"})
    /\ Effect(t, DelAttrOf(heap, Top(stack[t]).self, CurIns(t).a))
    /\ UNCHANGED <<bsuper, immTypes, regProxies, cur, last, trace>>

\* acc = super().a(), acc = super(b, self).a() and acc = super().a
ExecSuper(t) ==
    /\ AtIns(t, {"super", "superx", "superget"})
    /\ Len(stack[t]) < MaxDepth
    /\ \E s \in {SuperLookup(heap, bsuper, Top(stack[t]), CurIns(t).b, CurIns(t).a)} :
       \E r \in {Applied(s, CurIns(t).op # "superget")} :
       \E callee \in {BodyFrame(r.cls, CurIns(t).a, r.self)} :
           CASE r.do = "push" ->
                  /\ stack' = [stack EXCEPT ![t] = Append(Advance(@), callee)]
                  /\ trace' = [trace EXCEPT ![t] = Append(@, Entered(callee))]
                  /\ UNCHANGED exc
             [] r.do = "store" ->
                  /\ stack' = [stack EXCEPT ![t] =
                                  Advance(SetTop(@, [Top(@) EXCEPT !.acc = r.val]))]
                  /\ UNCHANGED <<exc, trace>>
             [] r.do = "raise" ->
                  /\ exc' = [exc EXCEPT ![t] = r.out]
                  /\ UNCHANGED <<stack, trace>>
    /\ UNCHANGED <<heap, bsuper, immTypes, regProxies, cur, last>>

\* getattr(c, a) for the class c.
ClassRead(c, a) ==
    IF ClassGetAttr(c, a) = "none" THEN Unresolved(Err("AttributeError"))
    ELSE ClassAttr(c, ClassGetAttr(c, a), a)

\* acc = b.a() for the class b, and acc = a(self) for the function a
ExecCall(t) ==
    /\ AtIns(t, {"callcls", "callfn"})
    /\ Len(stack[t]) < MaxDepth
    /\ \E r \in {IF CurIns(t).op = "callfn" THEN Push(NoClass, Top(stack[t]).self)
                 ELSE Applied(ClassRead(CurIns(t).b, CurIns(t).a), TRUE)} :
       \E callee \in {BodyFrame(r.cls, CurIns(t).a, r.self)} :
           IF r.do = "push"
           THEN /\ stack' = [stack EXCEPT ![t] = Append(Advance(@), callee)]
                /\ trace' = [trace EXCEPT ![t] = Append(@, Entered(callee))]
                /\ UNCHANGED exc
           ELSE /\ exc' = [exc EXCEPT ![t] = r.out]
                /\ UNCHANGED <<stack, trace>>
    /\ UNCHANGED <<heap, bsuper, immTypes, regProxies, cur, last>>

\* acc = self.a.b()
ExecCallAttr(t) ==
    /\ AtIns(t, {"callattr"})
    /\ Len(stack[t]) < MaxDepth
    /\ \E g \in {GetAttr(heap, immTypes, regProxies, Top(stack[t]).self, CurIns(t).a)} :
       \E m \in {IF IsOk(g) THEN GetAttr(g.h, immTypes, regProxies, g.val, CurIns(t).b)
                           ELSE g} :
       \E callee \in {CalleeFrame(g.h, bsuper, g.val, CurIns(t).b)} :
           /\ heap' = g.h
           /\ IF IsOk(m) /\ m.val = FnV
              THEN /\ stack' = [stack EXCEPT ![t] = Append(Advance(@), callee)]
                   /\ trace' = [trace EXCEPT ![t] =
                          IF callee.kind = "body" THEN Append(@, Entered(callee)) ELSE @]
                   /\ UNCHANGED exc
              ELSE /\ exc' = [exc EXCEPT ![t] =
                          IF IsOk(m) THEN Err("TypeError") ELSE m.out]
                   /\ UNCHANGED <<stack, trace>>
    /\ UNCHANGED <<bsuper, immTypes, regProxies, cur, last>>

\* return self.a, return acc, return None, return n, return self, and the
\* return of the handle by a coroutine function
ExecReturn(t) ==
    /\ AtIns(t, {"ret_attr", "ret_acc", "ret_none", "ret_int", "ret_self", "ret_handle"})
    /\ \E f \in {Top(stack[t])} :
       \E r \in {CASE CurIns(t).op = "ret_attr" ->
                       GetAttr(heap, immTypes, regProxies, f.self, CurIns(t).a)
                  [] CurIns(t).op = "ret_acc" -> Ok(f.acc, heap)
                  [] CurIns(t).op = "ret_none" -> Ok(NoneV, heap)
                  [] CurIns(t).op = "ret_int" -> Ok(IntV(CurIns(t).n), heap)
                  [] CurIns(t).op = "ret_self" -> Ok(f.self, heap)
                  [] CurIns(t).op = "ret_handle" -> Ok(CoroV(f.self.v), heap)} :
           IF IsOk(r)
           THEN ReturnTo(t, Pop(stack[t]), r.val, r.h) /\ UNCHANGED exc
           ELSE /\ exc' = [exc EXCEPT ![t] = r.out]
                /\ heap' = r.h
                /\ UNCHANGED <<stack, cur, last>>
    /\ UNCHANGED <<bsuper, immTypes, regProxies, trace>>

\* The client drives the handle its last call returned (asyncio.run(h),
\* list(h)): the body of the coroutine function starts, with the first
\* argument the function was called with.
Drive(t) ==
    /\ stack[t] = <<>> /\ exc[t] = NoExc
    /\ last[t].op = "call" /\ last[t].out = NoExc /\ last[t].val.k = "coro"
    /\ \E recv \in {Ref(last[t].val.v)} :
       \E f \in {BodyFrame(ClassGetAttr(GetTypeOf(heap, recv), "coro"), "coro_body", recv)} :
           /\ stack' = [stack EXCEPT ![t] = <<f>>]
           /\ last' = [last EXCEPT ![t] = Start("drive", recv, "coro", NoneV)]
           /\ trace' = [trace EXCEPT ![t] = <<Entered(f)>>]
    /\ UNCHANGED <<heap, bsuper, immTypes, regProxies, exc, cur>>

(***************************************************************************)
(* The sequential specification: one thread of client code.                *)
(***************************************************************************)
Step(t) ==
    \/ WrapCall(t)
    \/ Construct(t)
    \/ CtorReturn(t)
    \/ ReadAttr(t)
    \/ ReadItem(t)
    \/ Iterate(t)
    \/ SetAttr(t)
    \/ DelAttr(t)
    \/ AdapterCall(t)
    \/ Copy(t)
    \/ CheckType(t)
    \/ SetItem(t)
    \/ RegisterImmutable(t)
    \/ Discard(t)
    \/ CallMethod(t)
    \/ Drive(t)
    \/ Install(t)
    \/ Restore(t)
    \/ UnwindWrapper(t)
    \/ UnwindFrame(t)
    \/ ExecSet(t)
    \/ ExecDel(t)
    \/ ExecSuper(t)
    \/ ExecCall(t)
    \/ ExecCallAttr(t)
    \/ ExecReturn(t)

Next == \E t \in MainThreads : Step(t)

Spec == Init /\ [][Next]_vars

(***************************************************************************)
(* The specification with two threads.  Each thread wraps the same object  *)
(* in a proxy of its own and calls get_x and set_x through it; the steps   *)
(* of the two call stacks interleave, and builtins.super is shared.        *)
(***************************************************************************)
ThreadWrap(t) == WrapCallOf(t, {"ImmutableProxy"}, {Ref(2)})
ThreadCall(t) == CallMethodOf(t, {v \in {cur[t]} : IsRef(v)}, {"get_x", "set_x"})

ThreadStep(t) ==
    \/ ThreadWrap(t)
    \/ CtorReturn(t)
    \/ Discard(t)
    \/ ThreadCall(t)
    \/ Install(t)
    \/ Restore(t)
    \/ UnwindWrapper(t)
    \/ UnwindFrame(t)
    \/ ExecSet(t)
    \/ ExecSuper(t)
    \/ ExecReturn(t)

NextThreads == \E t \in Threads : ThreadStep(t)

SpecThreads == Init /\ [][NextThreads]_vars

(***************************************************************************)
(* Properties                                                              *)
(***************************************************************************)
\* The last operation of thread t has ended.
Done(t) == last[t].op # "none" /\ last[t].out # Running

\* e is the ConstantAttributeError of a refused write or delete.
Refused(e, op) ==
    /\ e.kind = "ConstantAttributeError"
    /\ e.action = IF op = "setattr" THEN "change" ELSE "delete"

\* The instance attributes the initializer of class c leaves.
AfterInit(c) ==
    CASE c = "ImmA" -> ("x" :> IntV(0)) @@ ("y" :> IntV(1))
      [] c = "ImmB" -> ("x" :> IntV(0)) @@ ("y" :> IntV(1)) @@ ("z" :> IntV(2))
      [] c = "Other" -> NoAttrs
      [] c = "DecD" -> ("x" :> IntV(0)) @@ ("y" :> IntV(1))

\* C1: the freeze invariant.  No write or delete made by the initializer of
\* a class with write-once instances raises: the constructor returns an
\* instance that holds what the initializer wrote and did not delete, and
\* that is frozen.  After that every change, addition or deletion of an
\* attribute raises ConstantAttributeError and changes no object.
C1_FreezeInvariant ==
    \A t \in Threads :
        /\ (stack[t] # <<>> /\ stack[t][1].kind = "ctor"
                /\ stack[t][1].cls \in ImmutableClasses) => exc[t] = NoExc
        /\ (Done(t) /\ last[t].op = "construct") =>
              /\ last[t].out = NoExc
              /\ IsRef(last[t].val)
              /\ heap[last[t].val.v].cls = last[t].name
              /\ heap[last[t].val.v].attrs =
                    AfterInit(last[t].name) @@ ("__frozen" :> BoolV(TRUE))
        /\ (Done(t) /\ last[t].op \in {"setattr", "delattr"}
                /\ last[t].tcls \in ImmutableClasses) =>
              /\ Refused(last[t].out, last[t].op)
              /\ last[t].changed = {}
              /\ heap[last[t].tgt.v].attrs =
                    AfterInit(last[t].tcls) @@ ("__frozen" :> BoolV(TRUE))

\* An instance whose initializer ran through super().__init__ has refused
\* the addition of an attribute.
C1_Witness ==
    /\ Done(1) /\ last[1].op = "setattr" /\ last[1].tcls = "ImmB"
    /\ last[1].name = "t" /\ last[1].out.kind = "ConstantAttributeError"
    /\ heap[last[1].tgt.v].attrs["z"] = IntV(2)

\* C2: on every proxy (shallow, deep, adapter, or one read through a deep
\* proxy) a write, an addition or a deletion of an attribute raises
\* ConstantAttributeError with the action "change" or "delete", changes no
\* object, and reading the attribute through the proxy afterwards gives
\* what it gave before the attempt.
C2_ProxyRefusesWrites ==
    \A t \in Threads :
        (Done(t) /\ last[t].op \in {"setattr", "delattr"}
            /\ IsSubclass(last[t].tcls, "ImmutableProxy")) =>
              /\ Refused(last[t].out, last[t].op)
              /\ last[t].out.attr = last[t].name
              /\ last[t].changed = {}
              /\ ReadSeen(heap, immTypes, regProxies, last[t].tgt, last[t].name)
                    = last[t].before

\* A deep proxy of the object peer refers to (the proxy a read of peer
\* through a deep proxy gives) has refused the write of its attribute x,
\* which read 7 before.
C2_Witness ==
    /\ Done(1) /\ last[1].op = "setattr" /\ last[1].name = "x"
    /\ last[1].tcls = "DeepImmutableProxy"
    /\ heap[last[1].tgt.v].attrs["_instance"] = Ref(2)
    /\ last[1].out.kind = "ConstantAttributeError"
    /\ last[1].before = [out |-> "none", val |-> IntV(7)]

\* The frame of the closure of _define_method from which the function of
\* frame i descends by super() calls only (0: there is none).
RECURSIVE ChainBase(_, _)
ChainBase(stk, i) ==
    IF i <= 1 \/ stk[i].kind # "body" THEN 0
    ELSE IF stk[i - 1].kind = "wrapper" THEN i - 1
    ELSE IF /\ stk[i - 1].kind = "body" /\ stk[i - 1].pc > 1
            /\ Body(stk[i - 1].cls, stk[i - 1].meth)[stk[i - 1].pc - 1].op = "super"
         THEN ChainBase(stk, i - 1)
    ELSE 0

\* The instructions frame f has completed.
Passed(f) == {Body(f.cls, f.meth)[j].op : j \in 1..(f.pc - 1)}

\* C3: receiver fidelity.  The function called through a proxy, and every
\* function reached from it by super(), runs with that proxy as its first
\* argument; none of them completes a write or a delete on it (the
\* statement raises ConstantAttributeError); and the call changes no object.
C3_ReceiverFidelity ==
    \A t \in Threads :
        /\ \A i \in 1..Len(stack[t]) :
              ChainBase(stack[t], i) # 0 =>
                  /\ stack[t][i].self = stack[t][ChainBase(stack[t], i)].self
                  /\ IsProxy(heap, stack[t][i].self)
                  /\ Passed(stack[t][i]) \cap {"set", "del"} = {}
                  /\ (/\ i = Len(stack[t]) /\ exc[t] # NoExc
                      /\ CurIns(t).op \in {"set", "del"}) =>
                          exc[t].kind = "ConstantAttributeError"
        /\ (Done(t) /\ last[t].op = "call" /\ trace[t] # <<>>
                /\ IsSubclass(last[t].tcls, "ImmutableProxy")) =>
              /\ last[t].changed = {}
              /\ trace[t][1].recv = last[t].tgt
              /\ last[t].name \in {"set_x", "del_x"} =>
                    /\ last[t].out.kind = "ConstantAttributeError"
                    /\ \A j \in 1..Len(trace[t]) : trace[t][j].recv = last[t].tgt

\* A.set_x, reached by two super() calls from C.set_x called through a
\* proxy, has raised on its write: the receiver is the proxy.
C3_Witness ==
    /\ Len(stack[1]) = 4 /\ stack[1][1].kind = "wrapper"
    /\ stack[1][4].cls = "A" /\ stack[1][4].meth = "set_x"
    /\ stack[1][4].self = stack[1][1].self
    /\ exc[1].kind = "ConstantAttributeError"

\* The classes of the functions entered by the running or the last call.
Entries(t) == [j \in 1..Len(trace[t]) |-> trace[t][j].cls]
IsPrefix(a, b) == Len(a) <= Len(b) /\ a = SubSeq(b, 1, Len(a))
\* What get_x gives on the instance i of C without any proxy.
Unwrapped(i) ==
    IF "x" \in DOMAIN heap[i].attrs
    THEN [out |-> "none", val |-> heap[i].attrs["x"]]
    ELSE [out |-> "AttributeError", val |-> NoneV]

\* C4: dispatch correctness.  get_x and set_x are defined by A, B and C,
\* and B and C call super().  Called on a proxy of an instance of C, the
\* functions entered are those of C, B and A, once each and in that order,
\* each with the proxy as first argument; the call ends in A; and get_x
\* gives what it gives on the instance itself.
C4_DispatchCorrectness ==
    \A t \in Threads :
        (/\ last[t].op = "call" /\ last[t].name \in {"get_x", "set_x"}
         /\ IsSubclass(last[t].tcls, "ImmutableProxy")
         /\ last[t].tgt.v \in DOMAIN heap
         /\ GetType(heap, last[t].tgt.v) = "C") =>
              /\ IsPrefix(Entries(t), <<"C", "B", "A">>)
              /\ \A j \in 1..Len(trace[t]) :
                    /\ trace[t][j].meth = last[t].name
                    /\ trace[t][j].recv = last[t].tgt
              /\ Done(t) =>
                    /\ Entries(t) = <<"C", "B", "A">>
                    /\ last[t].name = "get_x" =>
                          /\ [out |-> last[t].out.kind, val |-> last[t].val]
                                = Unwrapped(heap[last[t].tgt.v].attrs["_instance"].v)
                          /\ last[t].changed = {}

\* get_x called on a deep proxy of the instance of C has run the three
\* functions and returned the attribute of the instance.
C4_Witness ==
    /\ Done(1) /\ last[1].op = "call" /\ last[1].name = "get_x"
    /\ last[1].tcls = "DeepImmutableProxy"
    /\ heap[last[1].tgt.v].attrs["_instance"] = Ref(1)
    /\ Entries(1) = <<"C", "B", "A">>
    /\ last[1].val = IntV(5)

\* C5: wrapping is idempotent.  A wrapper called on one of its own
\* instances (ImmutableProxy on any proxy, DeepImmutableProxy on a deep
\* proxy or an adapter) returns that very object and allocates nothing;
\* and no proxy ever wraps a proxy.
C5_IdempotentWrap ==
    /\ \A t \in Threads :
          (Done(t) /\ last[t].op = "wrap" /\ IsSubclass(last[t].tcls, last[t].name)) =>
              /\ last[t].out = NoExc
              /\ last[t].val = last[t].tgt
              /\ last[t].new = {}
    /\ \A i \in DOMAIN heap :
          IsProxy(heap, Ref(i)) => ~IsProxy(heap, heap[i].attrs["_instance"])

\* ImmutableProxy called on a deep proxy has returned the deep proxy.
C5_Witness ==
    /\ Done(1) /\ last[1].op = "wrap" /\ last[1].name = "ImmutableProxy"
    /\ last[1].tcls = "DeepImmutableProxy"
    /\ last[1].val = last[1].tgt

\* C6: a value whose type is registered as immutable, at import or later,
\* is returned as it is by both wrappers: same identity, nothing allocated,
\* nothing changed.
C6_ImmutableBypass ==
    \A t \in Threads :
        (Done(t) /\ last[t].op = "wrap" /\ last[t].tcls \in Range(immTypes)) =>
            /\ last[t].out = NoExc
            /\ last[t].val = last[t].tgt
            /\ last[t].new = {}
            /\ last[t].changed = {}

\* DeepImmutableProxy called on an instance of K, after K was registered,
\* has returned the instance.
C6_Witness ==
    /\ Done(1) /\ last[1].op = "wrap" /\ last[1].name = "DeepImmutableProxy"
    /\ last[1].tcls = "K" /\ "K" \in Range(immTypes)
    /\ last[1].val = Ref(4)

\* val is what a deep wrap may give: a value of a type registered as
\* immutable, or a deep proxy.
DeepWrapped(val) ==
    \/ TypeOf(heap, val) \in Range(immTypes)
    \/ IsRef(val) /\ IsDeepProxy(heap, val)

\* C7: deep recursion.  Every read of an attribute and every indexed read
\* on a deep proxy gives a value of a type registered as immutable or a
\* deep proxy, never an object of the wrapped one as it is, whatever the
\* attribute holds.  (A read that finds a function of the class gives the
\* closure that calls it with the proxy, which is no object of the wrapped
\* one.)  The object that the attribute f holds defines __call__, and the
\* read gives it unwrapped.
C7_DeepReadsAreWrapped ==
    \A t \in Threads :
        (/\ Done(t) /\ last[t].op \in {"getattr", "getitem"}
         /\ IsSubclass(last[t].tcls, "DeepImmutableProxy")
         /\ last[t].out = NoExc /\ last[t].val # FnV) =>
              DeepWrapped(last[t].val)

\* The exits of the calls through proxies: the closure of _define_method
\* of thread t returns or lets an exception pass.
ProxiedExit(t) ==
    /\ stack[t] # <<>> /\ Top(stack[t]).kind = "wrapper"
    /\ Len(stack'[t]) < Len(stack[t])
\* A function called through a proxy is running.
ProxiedActive ==
    \E t \in Threads : \E i \in 1..Len(stack[t]) :
        stack[t][i].kind = "wrapper" /\ stack[t][i].pc = 1

\* C8: in sequential client code, builtins.super is the built-in one
\* whenever no function called through a proxy is running, and every call
\* through a proxy, outermost or nested, returning or raising, leaves
\* builtins.super as it was when the call was made.
C8_SuperRestored ==
    /\ [](~ProxiedActive => bsuper = "super")
    /\ [][\A t \in Threads : ProxiedExit(t) => bsuper' = Top(stack[t]).entry]_vars

\* The call of get_x on the proxy of peer, made by nest called through a
\* deep proxy, has returned to nest: builtins.super is the replacement
\* again, as the outer call left it.
C8_Witness ==
    /\ Len(stack[1]) = 2 /\ stack[1][1].kind = "wrapper" /\ stack[1][1].pc = 1
    /\ stack[1][2].meth = "nest" /\ stack[1][2].acc = IntV(7)
    /\ bsuper = "super_patch"

\* The names an adapter of class c lets through to the container.
AllowList(c) ==
    CASE c = "TupleImmutableProxy" -> {"count", "index"}
      [] c = "DictImmutableProxy" -> {"get", "items", "keys", "values"}
      [] c = "ListImmutableProxy" -> {"index", "count"}

\* C9: the adapters of tuple, dict and list let only their allow-list
\* through to the container.  For a read (alone or for a call) of a name
\* that the lookup on the adapter itself does not find: a name of the list
\* of the adapter (count and index; get, items, keys and values; index and
\* count) is never refused with AttributeError, and any other name
\* (append, update, ...) raises AttributeError naming it: nothing is then
\* called, allocated or changed.
C9_AdapterAllowList ==
    \A t \in Threads :
        (/\ Done(t) /\ last[t].op \in {"getattr", "call"}
         /\ IsSubclass(last[t].tcls, "BuiltinImmutableProxy")) =>
              IF last[t].name \in AllowList(last[t].tcls)
              THEN last[t].out.kind # "AttributeError"
              ELSE /\ last[t].out.kind = "AttributeError"
                   /\ last[t].out.attr = last[t].name
                   /\ last[t].changed = {}
                   /\ last[t].new = {}

\* append called on the adapter of a list has raised AttributeError.
C9_Witness ==
    /\ Done(1) /\ last[1].op = "call" /\ last[1].name = "append"
    /\ last[1].tcls = "ListImmutableProxy"
    /\ last[1].out.kind = "AttributeError"
    /\ heap[3].items = RawWorld[3].items

\* C10: on an adapter, every indexed read and every result of a method of
\* the allow-list is deep-wrapped: a value of a type registered as
\* immutable, or a deep proxy of the element (never a proxy of a proxy).
C10_AdapterResultsDeep ==
    \A t \in Threads :
        (/\ Done(t) /\ last[t].op \in {"getitem", "call"}
         /\ IsSubclass(last[t].tcls, "BuiltinImmutableProxy")
         /\ last[t].out = NoExc) =>
              /\ DeepWrapped(last[t].val)
              /\ (IsRef(last[t].val) /\ IsProxy(heap, last[t].val)) =>
                    ~IsProxy(heap, heap[last[t].val.v].attrs["_instance"])

\* The second item of the list, read on its adapter, is a deep proxy of
\* the object the list holds.
C10_Witness ==
    /\ Done(1) /\ last[1].op = "getitem" /\ last[1].tcls = "ListImmutableProxy"
    /\ last[1].arg = IntV(2) /\ IsRef(last[1].val)
    /\ heap[last[1].val.v].cls = "DeepImmutableProxy"
    /\ heap[last[1].val.v].attrs["_instance"] = Ref(2)

\* The operation of thread t was copy(p) or deepcopy(p) of a proxy p.
Copied(t) == Done(t) /\ last[t].op \in {"copy", "deepcopy"}

\* The operation of thread t was a write to an attribute of a copy that is
\* an instance of a class.
CopyWritten(t) ==
    /\ Done(t) /\ last[t].op = "setattr" /\ IsRef(last[t].tgt)
    /\ last[t].tgt.v \in DOMAIN heap /\ IsCopy(heap, last[t].tgt)
    /\ last[t].tcls \notin {"list", "tuple", "dict"}

TrueType(t) == IF last[t].inst = NoneV THEN last[t].tcls ELSE last[t].icls

\* C12: get_type and is_instance see through proxying.  For a proxy of any
\* kind get_type returns the type of the wrapped object, never a proxy
\* class; for any other value it returns the type of the value;
\* is_instance(v, T) is true exactly when that type is T, a subclass of T,
\* or a subclass of a member of the tuple T.
C12_TypeSeesThrough ==
    \A t \in Threads :
        /\ (Done(t) /\ last[t].op = "get_type") =>
              /\ last[t].out = NoExc /\ last[t].changed = {} /\ last[t].new = {}
              /\ last[t].val = TypeV(TrueType(t))
              /\ IsSubclass(last[t].tcls, "ImmutableProxy") =>
                    /\ last[t].inst # NoneV
                    /\ ~IsSubclass(ClassOf(last[t].val), "ImmutableProxy")
        /\ (Done(t) /\ last[t].op = "is_instance") =>
              /\ last[t].out = NoExc /\ last[t].changed = {} /\ last[t].new = {}
              /\ last[t].val = BoolV(
                    \/ last[t].name \in Range(Mro(TrueType(t)))
                    \/ /\ last[t].arg # NoneV
                       /\ ClassOf(last[t].arg) \in Range(Mro(TrueType(t))))

\* is_instance(p, (dict, A)) was true for a deep proxy p that wraps an
\* instance of B, a subclass of A.
C12_Witness ==
    /\ Done(1) /\ last[1].op = "is_instance" /\ last[1].tcls = "DeepImmutableProxy"
    /\ last[1].icls = "B" /\ last[1].name = "dict" /\ last[1].arg = TypeV("A")
    /\ last[1].val = BoolV(TRUE)

\* C13: indexed mutation is rejected on every proxy.  An item assignment
\* or a slice assignment on a shallow proxy, a deep proxy or an adapter of
\* a built-in container, obtained by wrapping or by indexing a deep proxy,
\* raises TypeError and changes no object: the wrapped container keeps its
\* items.
C13_ItemAssignmentRejected ==
    \A t \in Threads :
        (Done(t) /\ last[t].op = "setitem" /\ IsSubclass(last[t].tcls, "ImmutableProxy")) =>
            /\ last[t].out.kind = "TypeError"
            /\ last[t].changed = {} /\ last[t].new = {}
            /\ last[t].inst.v \in RawIds =>
                  heap[last[t].inst.v].items = RawWorld[last[t].inst.v].items

\* A slice assignment on the adapter of the list that indexing the adapter
\* of the tuple gave was refused; the list holds its two items.
C13_Witness ==
    /\ Done(1) /\ last[1].op = "setitem" /\ last[1].name = "slice"
    /\ last[1].tcls = "ListImmutableProxy" /\ last[1].inst = Ref(3)
    /\ last[1].out.kind = "TypeError"
    /\ heap[3].items = <<IntV(1), Ref(2)>>

(***************************************************************************)
(* The chain calls (super) as the stack shows them: frame i + 1 is the     *)
(* function that the statement before the program counter of frame i       *)
(* started.                                                                *)
(***************************************************************************)
SuperOps == {"super", "superx", "superget"}
\* The statement frame f has just executed or is waiting for.
CallerIns(f) == Body(f.cls, f.meth)[f.pc - 1]
\* Frame i of stk waits for the function its chain call started.
SuperCall(stk, i) ==
    /\ i < Len(stk) /\ stk[i].kind = "body" /\ stk[i + 1].kind = "body"
    /\ stk[i].pc > 1 /\ CallerIns(stk[i]).op \in SuperOps
\* builtins.super is super_patch for frame i: a proxied call is active.
PatchedAt(stk, i) == \E j \in 1..(i - 1) : stk[j].kind = "wrapper" /\ stk[j].pc = 1
\* The innermost frame of t has raised at its chain call.
RaisedAtSuper(t) ==
    /\ stack[t] # <<>> /\ exc[t] # NoExc /\ Top(stack[t]).kind = "body"
    /\ Top(stack[t]).pc <= Len(Body(Top(stack[t]).cls, Top(stack[t]).meth))
    /\ CurIns(t).op \in SuperOps

\* The classes after klass in the sequence of classes mro.
After(mro, klass) ==
    IF klass \in Range(mro) THEN SubSeq(mro, IndexIn(mro, klass) + 1, Len(mro)) ELSE <<>>
\* The type of val, or of the object val wraps when val is a proxy.
TrueTypeOf(h, val) ==
    IF IsRef(val) /\ IsProxy(h, val) THEN h[h[val.v].attrs["_instance"].v].cls
    ELSE TypeOf(h, val)
\* The classes a chain call of frame f searches: k is the class of the
\* explicit form ("" for the form without arguments).
VisibleSlice(h, f, k, patched) ==
    IF ~patched
    THEN After(Mro(IF f.self.k = "type" THEN ClassOf(f.self) ELSE TypeOf(h, f.self)),
               IF k # "" THEN k ELSE f.cls)
    ELSE IF k # "" THEN Tail(Mro(k))
    ELSE IF f.self.k = "type" /\ IsSubclass(ClassOf(f.self), f.cls) THEN Tail(Mro(f.cls))
    ELSE After(Mro(TrueTypeOf(h, f.self)), f.cls)

\* C14: the chain call runs the function of the first class of the visible
\* slice that itself defines the name: no class later in the slice is
\* chosen over an earlier class of the slice that defines it, whatever the
\* hierarchy (single or multiple inheritance).
C14_FirstDefiningClass ==
    \A t \in Threads : \A i \in 1..Len(stack[t]) :
        SuperCall(stack[t], i) =>
            stack[t][i + 1].cls =
                FirstDefining(VisibleSlice(heap, stack[t][i], CallerIns(stack[t][i]).b,
                                           PatchedAt(stack[t], i)),
                              CallerIns(stack[t][i]).a)

\* Frame f makes chain calls in the implicit form on an instance: it is a
\* function of a class and its first argument is an object.
ImplicitOnInstance(f) == f.cls # NoClass /\ IsRef(f.self)
\* Some class of the sequence s has the name a.
SomeHas(s, a) == \E j \in 1..Len(s) : ClassGetAttr(s[j], a) # "none"

\* C15: the implicit chain call of a function of class K, made while a
\* proxied call is active with receiver r, searches the classes that come
\* strictly after K in the ancestor order of the true type of r (the type
\* of the wrapped object when r is a proxy).  The function it starts
\* belongs to one of these classes, never to K or to a proxy class; it
\* fails with AttributeError exactly when none of them has the name, and
\* a proxy as receiver never makes it fail to find K.
C15_TrueTypeOrder ==
    \A t \in Threads :
        /\ \A i \in 1..Len(stack[t]) :
              (/\ SuperCall(stack[t], i) /\ PatchedAt(stack[t], i)
               /\ CallerIns(stack[t][i]).op = "super"
               /\ ImplicitOnInstance(stack[t][i])) =>
                  /\ stack[t][i + 1].cls \in
                        Range(After(Mro(TrueTypeOf(heap, stack[t][i].self)), stack[t][i].cls))
                  /\ stack[t][i + 1].cls # stack[t][i].cls
                  /\ ~IsSubclass(stack[t][i + 1].cls, "ImmutableProxy")
        /\ (/\ RaisedAtSuper(t) /\ PatchedAt(stack[t], Len(stack[t]))
            /\ CurIns(t).op = "super" /\ ImplicitOnInstance(Top(stack[t]))
            /\ Top(stack[t]).cls \in Range(Mro(TrueTypeOf(heap, Top(stack[t]).self)))) =>
               /\ exc[t].kind # "ValueError"
               /\ exc[t].kind = "AttributeError" <=>
                    ~SomeHas(After(Mro(TrueTypeOf(heap, Top(stack[t]).self)),
                                   Top(stack[t]).cls), CurIns(t).a)

\* via, a function of L called through a proxy of the instance of M, has
\* made its chain call: the order is that of M, where R follows L, and the
\* function of R runs with the proxy.
C15_Witness ==
    /\ Len(stack[1]) = 3 /\ stack[1][1].kind = "wrapper"
    /\ stack[1][2].cls = "L" /\ stack[1][2].meth = "via"
    /\ IsProxy(heap, stack[1][2].self) /\ TrueTypeOf(heap, stack[1][2].self) = "M"
    /\ stack[1][3].cls = "R" /\ stack[1][3].meth = "do"
    /\ stack[1][3].self = stack[1][2].self

\* What the implicit form super().a gives at the place of frame f, and what
\* the statement of frame f does with it.
ImplicitAt(h, f, a, call) == Applied(SuperPatch(h, f.cls, f.self, a), call)

\* C16: inside a proxied call the explicit form super(K, r).name, used in
\* a function of class K with receiver r, resolves as the implicit form
\* super().name does at the same place: the same function is started with
\* the same receiver, and one fails exactly as the other does.
C16_ExplicitAsImplicit ==
    \A t \in Threads :
        /\ \A i \in 1..Len(stack[t]) :
              (/\ SuperCall(stack[t], i) /\ PatchedAt(stack[t], i)
               /\ CallerIns(stack[t][i]).op = "superx"
               /\ CallerIns(stack[t][i]).b = stack[t][i].cls) =>
                  /\ ImplicitAt(heap, stack[t][i], CallerIns(stack[t][i]).a, TRUE).do = "push"
                  /\ stack[t][i + 1].cls =
                        ImplicitAt(heap, stack[t][i], CallerIns(stack[t][i]).a, TRUE).cls
                  /\ stack[t][i + 1].self =
                        ImplicitAt(heap, stack[t][i], CallerIns(stack[t][i]).a, TRUE).self
        /\ (/\ RaisedAtSuper(t) /\ PatchedAt(stack[t], Len(stack[t]))
            /\ CurIns(t).op = "superx" /\ CurIns(t).b = Top(stack[t]).cls) =>
               ImplicitAt(heap, Top(stack[t]), CurIns(t).a, TRUE).out = exc[t]

\* The value of the accessor a (the property y, whose getter returns the
\* attribute x, or the slot s) for the receiver val, proxy or not.
AccessorValue(h, val, a) ==
    LET i == IF IsProxy(h, val) THEN h[val.v].attrs["_instance"].v ELSE val.v
    IN  h[i].attrs[IF a = "y" THEN "x" ELSE a]
\* Frame f is the innermost one and has completed the read super().a of an
\* accessor.
AccessorRead(t) ==
    /\ stack[t] # <<>> /\ exc[t] = NoExc /\ Top(stack[t]).kind = "body"
    /\ Top(stack[t]).pc > 1 /\ CallerIns(Top(stack[t])).op = "superget"

\* C17: a chain call that finds an accessor (a property or the descriptor
\* of a slot) gives the value of the accessor for the receiver, never a
\* callable that wraps the descriptor, and it does not fail.
C17_AccessorValue ==
    \A t \in Threads :
        /\ AccessorRead(t) =>
              Top(stack[t]).acc =
                  AccessorValue(heap, Top(stack[t]).self, CallerIns(Top(stack[t])).a)
        /\ ~(RaisedAtSuper(t) /\ CurIns(t).op = "superget")

\* C18: a class-level function of class K, called on the class C while a
\* proxied call is active, makes its implicit chain call: the function
\* found runs with C as its first argument, and the call gives what it
\* gives without any proxy (callcn returns M, the class the function was
\* called on).
C18_ClassArgumentKept ==
    \A t \in Threads :
        /\ \A i \in 1..Len(stack[t]) :
              (/\ SuperCall(stack[t], i) /\ PatchedAt(stack[t], i)
               /\ stack[t][i].self.k = "type") =>
                  stack[t][i + 1].self = stack[t][i].self
        /\ (Done(t) /\ last[t].op = "call" /\ last[t].name = "callcn") =>
              /\ last[t].out = NoExc
              /\ last[t].val = TypeV("M")

\* C19: in the implicit form, a chain call that cannot recover the
\* defining class (the caller is a function outside any class) or the
\* first argument (the caller has none) raises RuntimeError and no other
\* exception.
C19_ResolverUnavailable ==
    \A t \in Threads :
        (/\ RaisedAtSuper(t) /\ CurIns(t).op \in {"super", "superget"}
         /\ Top(stack[t]).cls = NoClass \/ Top(stack[t]).self = NoArg) =>
            exc[t].kind = "RuntimeError"

\* The class a chain call of frame f starts from: the class given to the
\* explicit form, the class that defines the function otherwise.
StartClass(f, k) == IF k # "" THEN k ELSE f.cls
\* The chain call of the innermost frame of t can recover its class and
\* its first argument.
Recovers(f, k) == k # "" \/ (f.cls # NoClass /\ f.self # NoArg)
\* The class whose function of name m calls super() for a name no ancestor
\* has, for the three forms.
MissOwner(m) ==
    CASE m = "miss" -> "B"
      [] m = "missx" -> "L"
      [] m = "callcmiss" -> "M"

\* C20: a chain call made while a proxied call is active, for a name that
\* no class of the visible slice has, raises AttributeError, and the
\* error names the class the call starts from and the name: in the
\* implicit form on an instance (miss), in the implicit class-level form
\* (callcmiss) and in the explicit form (missx), on a proxy that the client
\* made and on one that a deep proxy returned.
C20_MissNamesClass ==
    \A t \in Threads :
        /\ (/\ RaisedAtSuper(t) /\ PatchedAt(stack[t], Len(stack[t]))
            /\ Recovers(Top(stack[t]), CurIns(t).b)
            /\ ~SomeHas(VisibleSlice(heap, Top(stack[t]), CurIns(t).b, TRUE), CurIns(t).a)
            /\ exc[t].kind # "ValueError") =>
               exc[t] = ExcRec("AttributeError", StartClass(Top(stack[t]), CurIns(t).b),
                               "", CurIns(t).a, "super")
        /\ (/\ Done(t) /\ last[t].op = "call"
            /\ last[t].name \in {"miss", "missx", "callcmiss"}
            /\ IsSubclass(last[t].tcls, "ImmutableProxy")) =>
               /\ last[t].out.kind = "AttributeError"
               /\ last[t].out.owner = MissOwner(last[t].name)
               /\ last[t].out.attr = IF last[t].name = "miss" THEN "miss" ELSE "nope"
               /\ last[t].changed = {}

\* miss, a function of B whose ancestors have no miss, was called on a deep
\* proxy of the instance of B (the proxy that reading peer through a deep
\* proxy gives): AttributeError names B and miss.
C20_Witness ==
    /\ Done(1) /\ last[1].op = "call" /\ last[1].name = "miss"
    /\ last[1].tcls = "DeepImmutableProxy" /\ last[1].inst = Ref(2)
    /\ last[1].out = ExcRec("AttributeError", "B", "", "miss", "super")

\* The object val stands for: the wrapped object of a proxy, val otherwise.
RawOf(h, val) ==
    IF IsRef(val) /\ IsProxy(h, val) THEN h[val.v].attrs["_instance"] ELSE val

\* What the chain call super().a() of frame f does without any proxy: the
\* built-in super with the object itself as first argument.
Unproxied(h, f, a) == Applied(BuiltinSuper(h, f.cls, RawOf(h, f.self), a), TRUE)

\* The chain call of frame i is made by a function that an earlier chain
\* call started, or by a function of an object that is no proxy, called
\* from inside a proxied call.
Reentrant(stk, i) ==
    /\ SuperCall(stk, i) /\ PatchedAt(stk, i)
    /\ CallerIns(stk[i]).op = "super" /\ ImplicitOnInstance(stk[i])
    /\ (i > 1 /\ SuperCall(stk, i - 1)) \/ ~IsProxy(heap, stk[i].self)

\* What nest and nestm return without any proxy: get_x of the object peer
\* refers to, and do of the instance of M (the function of R).
NestResult(m) == IF m = "nest" THEN heap[2].attrs["x"] ELSE IntV(2)

\* C21: each chain call resolves from its own call site.  A chain call made
\* by a function that an earlier chain call started, or by a function of a
\* raw object called from inside a proxied call, starts a function of a
\* class that follows the class of the calling function in the ancestor
\* order of its own receiver, with that receiver as first argument; the
\* function started is the one started without any proxy, and the calls
\* nest and nestm return what they return without any proxy.
C21_OwnCallSite ==
    \A t \in Threads :
        /\ \A i \in 1..Len(stack[t]) :
              Reentrant(stack[t], i) =>
                  /\ stack[t][i + 1].self = stack[t][i].self
                  /\ stack[t][i + 1].cls \in
                        Range(After(Mro(TrueTypeOf(heap, stack[t][i].self)), stack[t][i].cls))
                  /\ stack[t][i + 1].cls =
                        Unproxied(heap, stack[t][i], CallerIns(stack[t][i]).a).cls
        /\ (/\ Done(t) /\ last[t].op = "call" /\ last[t].name \in {"nest", "nestm"}
            /\ IsSubclass(last[t].tcls, "ImmutableProxy") /\ last[t].icls = "C") =>
               /\ last[t].out = NoExc
               /\ last[t].val = NestResult(last[t].name)

\* No function called through a proxy is running or about to run on any
\* call stack.
AllReturned == \A t \in Threads : stack[t] = <<>>
\* A function called through a proxy is running with the built-in super in
\* builtins: the frame i of thread t is the closure inside its try.
RunsUnpatched(t, i) ==
    /\ i \in 1..Len(stack[t])
    /\ stack[t][i].kind = "wrapper" /\ stack[t][i].pc = 1
    /\ bsuper = "super"

\* C22: builtins.super is one variable of the process.  A call through a
\* proxy writes back, when it exits, what it found there when it installed
\* the replacement, whatever the other call stacks did meanwhile; with two
\* threads this is not safe.  A call that is still running finds the
\* built-in super only when it installed the replacement while another
\* call had it installed (it saved the replacement), and the replacement
\* can stay in builtins.super once every call has returned (C22_Witness).
C22_SharedResolver ==
    /\ [][\A t \in Threads : ProxiedExit(t) => bsuper' = Top(stack[t]).old]_vars
    /\ [](\A t \in Threads : \A i \in 1..Len(stack[t]) :
            RunsUnpatched(t, i) => stack[t][i].old = "super_patch")

\* Two calls of get_x through proxies have overlapped.  The call of thread
\* 1 returned 7 and put the built-in super back while the call of thread 2
\* was running: the chain call of thread 2 went to the built-in super and
\* raised TypeError.  Both calls have returned, and the replacement is
\* still in builtins.super.
C22_Witness ==
    /\ AllReturned /\ bsuper = "super_patch"
    /\ Done(1) /\ last[1].op = "call" /\ last[1].name = "get_x"
    /\ last[1].out = NoExc /\ last[1].val = IntV(7)
    /\ Done(2) /\ last[2].op = "call" /\ last[2].name = "get_x"
    /\ last[2].out.kind = "TypeError"

\* Frame i of stk is the body of a function invoked through a proxy: the
\* function the closure of _define_method called, or the body of a
\* coroutine function whose handle a call through a proxy returned.
ProxiedBody(stk, i) ==
    /\ stk[i].kind = "body"
    /\ \/ i > 1 /\ stk[i - 1].kind = "wrapper"
       \/ i = 1 /\ stk[i].meth = "coro_body" /\ IsProxy(heap, stk[i].self)

\* C23: the body of a function invoked through a proxy runs with the
\* replacement in builtins.super from its first statement to its last, so
\* that its chain calls go through super_patch: a chain call of such a body
\* never fails for having gone to the built-in super with the proxy, and
\* the body of the coroutine function coro, which runs when the handle is
\* driven, returns what it returns without the proxy.
C23_ResolverCoversBody ==
    \A t \in Threads :
        /\ \A i \in 1..Len(stack[t]) :
              ProxiedBody(stack[t], i) => bsuper = "super_patch"
        /\ (Done(t) /\ last[t].op = "drive" /\ IsSubclass(last[t].tcls, "ImmutableProxy")) =>
              /\ last[t].out = NoExc
              /\ last[t].val = heap[last[t].inst.v].attrs["x"]

\* The object in cell i carries a freeze flag, and the flag is set.
FlagSet(h, i) ==
    i \in DOMAIN h /\ "__frozen" \in DOMAIN h[i].attrs /\ IsFrozen(h, i)

\* C24: the freeze flag is monotonic.  Once the flag of an instance (a
\* write-once instance or a proxy) is set, no step clears it while the
\* instance exists: neither a write, a delete or a call, nor a constructor
\* call that returns an instance that existed already (a wrapper called on
\* one of its proxies).
C24_FreezeMonotonic ==
    [][\A i \in DOMAIN heap :
          (FlagSet(heap, i) /\ i \in DOMAIN heap') => FlagSet(heap', i)]_vars

\* The operation of thread t was a wrapper called on a value that it does
\* not return as it is (the value passes neither isinstance test of
\* _is_already_immutable).
Allocating(t) ==
    /\ Done(t) /\ last[t].op = "wrap"
    /\ ~IsSubclass(last[t].tcls, last[t].name)
    /\ \A i \in 1..Len(immTypes) : ~IsSubclass(last[t].tcls, immTypes[i])

\* C25: the class of the new proxy.  A wrapper called on a value that it
\* wraps (a direct instance of object apart, see C29) does not fail and
\* returns a new proxy: an instance of the class registered for the exact
\* type of the value (tuple, dict, list) and, when the exact type has no
\* registered class, also when it inherits from a registered type, an
\* instance of the wrapper that was called.
C25_ProxyClassSelection ==
    \A t \in Threads :
        (Allocating(t) /\ last[t].tcls # "object") =>
            /\ last[t].out = NoExc
            /\ IsRef(last[t].val) /\ last[t].val # last[t].tgt
            /\ heap[last[t].val.v].cls =
                  IF last[t].tcls \in DOMAIN regProxies
                  THEN regProxies[last[t].tcls] ELSE last[t].name

\* C26: what a wrapper returns as it is.  When a wrapper returns a value,
\* the value is its argument only if the exact type of the argument is
\* registered as immutable or the argument is an instance of the wrapper
\* (a proxy already); for any other argument, also an instance of a class
\* that is not registered but inherits from a registered one, the value
\* returned is a new proxy.
C26_UnwrappedOnlyIfRegistered ==
    \A t \in Threads :
        (/\ Done(t) /\ last[t].op = "wrap" /\ last[t].out = NoExc
         /\ last[t].tcls \notin Range(immTypes)
         /\ ~IsSubclass(last[t].tcls, last[t].name)) =>
            /\ last[t].val # last[t].tgt
            /\ IsRef(last[t].val) /\ IsProxy(heap, last[t].val)

\* The operation of thread t was a wrapper called on one of its own
\* instances.
Rewrapped(t) ==
    /\ Done(t) /\ last[t].op = "wrap" /\ IsSubclass(last[t].tcls, last[t].name)
    /\ IsSubclass(last[t].tcls, "ImmutableProxy")

\* C27: a wrapper called on a proxy p that is one of its instances (a
\* shallow or deep proxy, or the adapter of a tuple, a dict or a list)
\* leaves p as it was: no attribute of p or of any other object has changed
\* when the call returns, _instance (and _data, for an adapter) refers to
\* the object p wrapped before, and reads and calls on p give what they
\* gave before: no indexed read and no call of an allowed method on an
\* adapter ends in unbounded recursion.
C27_RewrapIntact ==
    \A t \in Threads :
        /\ Rewrapped(t) =>
              /\ last[t].changed = {}
              /\ heap[last[t].tgt.v].attrs["_instance"] = last[t].inst
              /\ IsAdapter(heap, last[t].tgt) =>
                    heap[last[t].tgt.v].attrs["_data"] = last[t].inst
        /\ (Done(t) /\ last[t].op \in {"getitem", "getattr", "call"}
                /\ IsSubclass(last[t].tcls, "ImmutableProxy")) =>
              last[t].out.kind # "RecursionError"

\* The operation of thread t was the read of an attribute on a shallow or
\* deep proxy, and the wrapped object has the attribute: its read on the
\* object itself succeeds.
ReadableRead(t) ==
    /\ Done(t) /\ last[t].op = "getattr" /\ last[t].tcls \in WrapClasses
    /\ last[t].inst.v \in DOMAIN heap
    /\ AttrKind(heap, last[t].inst, last[t].name) # "missing"

\* C28: every attribute that can be read on the wrapped object can be read
\* through its shallow or deep proxy: the read does not raise
\* AttributeError, whatever the attribute holds, also when it is an
\* attribute of the instance, unknown to the class, that holds a function
\* or a bound method of another object.
C28_ReadableThroughProxy ==
    \A t \in Threads :
        ReadableRead(t) => last[t].out.kind # "AttributeError"

\* The value that thread t gave to the wrapper is not a proxy of any class,
\* and its type selects a proxy class: no registered type is a strict base
\* of it only.
ClassSelected(t) ==
    /\ ~IsSubclass(last[t].tcls, "ImmutableProxy")
    /\ (\E c \in DOMAIN regProxies : IsSubclass(last[t].tcls, c)) =>
          last[t].tcls \in DOMAIN regProxies

\* C29: a wrapper called on a value that is neither an instance of a type
\* registered as immutable nor a proxy succeeds, whatever the type of the
\* value, a direct instance of object included: it returns a new proxy,
\* distinct from the value, whose _instance is the value itself.
C29_WrapsEveryValue ==
    \A t \in Threads :
        (Allocating(t) /\ ClassSelected(t)) =>
            /\ last[t].out = NoExc
            /\ IsRef(last[t].val) /\ last[t].val # last[t].tgt
            /\ IsProxy(heap, last[t].val)
            /\ heap[last[t].val.v].attrs["_instance"] = last[t].tgt

\* The operation of thread t produced a value by iterating a deep proxy:
\* a deep proxy of an object, the adapter of a tuple, a dict or a list, or
\* the deep proxy of a view that an adapter of a dict returned.
DeepIterated(t) ==
    /\ Done(t) /\ last[t].op = "iter" /\ last[t].out = NoExc
    /\ IsSubclass(last[t].tcls, "DeepImmutableProxy")

\* C30: iteration does not leak the wrapped objects.  Every value produced
\* by iterating a deep proxy, an adapter, or the items, keys or values that
\* an adapter of a dict returned is a value of a type registered as
\* immutable or a deep proxy, never an object reachable from the wrapped
\* one as it is.
C30_IterationDeep ==
    \A t \in Threads : DeepIterated(t) => DeepWrapped(last[t].val)

=============================================================================
